---- MODULE Spec2Model ----
(***************************************************************************)
(* Model of the SACL orchestrator (src/src/core/SACLProcessor.ts), its     *)
(* Graph Store client (src/src/graphiti/GraphitiClient.ts) and the parts   *)
(* of the analyzer and augmenter the orchestrator's control flow depends   *)
(* on.                                                                     *)
(*                                                                         *)
(* A path is a sequence of one-character strings, so that startsWith,      *)
(* includes, replace and split are computed on characters as the code      *)
(* computes them.  The Graph Store is the content handed to the Graphiti   *)
(* namespace by the client's write methods that returned normally; every   *)
(* write method may instead throw (its catch block rethrows).  The read    *)
(* methods are the code's own: they return synthetic results that do not   *)
(* depend on what was written.                                             *)
(***************************************************************************)
EXTENDS Integers, Sequences, FiniteSets, TLC

VARIABLES
  cacheEnabled,   \* SACLConfig.cacheEnabled, fixed at construction
  disk,           \* the file system: the content of each file
  cache,          \* SACLProcessor.cache : Map<string, CodeRepresentation>
  graphReps,      \* Graph Store: representation upserted per file path
  graphEdges,     \* Graph Store: relationship edges stored
  stages,         \* pipeline stages run by the operation in progress / last run
  pc,             \* "idle", or the loop a batch/repository operation is in
  work,           \* the items the running loop iterates over
  idx,            \* 1-based position of the running loop in work
  acc,            \* what the running loop has accumulated so far
  result,         \* the value returned by the last completed operation
  calls           \* how many operations the callers have issued

vars == <<cacheEnabled, disk, cache, graphReps, graphEdges, stages,
          pc, work, idx, acc, result, calls>>

----------------------------------------------------------------------------
(* Bounds of the model *)

\* longest batch handed to updateFiles
MaxBatch == 2

\* how many operations the callers issue in a run
MaxCalls == 2

----------------------------------------------------------------------------
(* Paths *)

\* config.repositoryPath: '/w'
repositoryPath == <<"/", "w">>

\* the process's working directory, against which fs resolves relative paths
cwd == repositoryPath

\* '/w/a.js' and '/w/b.py': source files of the repository
FileA == <<"/", "w", "/", "a", ".", "j", "s">>
FileB == <<"/", "w", "/", "b", ".", "p", "y">>
\* '/e': an absolute path outside the repository (as '/etc/passwd')
Outside == <<"/", "e">>
\* '../e': a relative path that leaves the repository through '..'
Escape == <<".", ".", "/", "e">>
\* '/we': has the root as a string prefix only
Sibling == <<"/", "w", "e">>
\* '\e': a backslash-rooted path
Backslash == <<"\\", "e">>

\* 'src/example1.py': a relative path, the first path the search mock returns
Example1 ==
  <<"s", "r", "c", "/", "e", "x", "a", "m", "p", "l", "e", "1", ".", "p", "y">>

Paths == {FileA, FileB, Outside, Escape, Sibling, Backslash, Example1}

\* the files on the disk: the repository's two source files
DiskFiles == {FileA, FileB}

\* String.prototype.startsWith
StartsWith(s, prefix) ==
  /\ Len(prefix) <= Len(s)
  /\ SubSeq(s, 1, Len(prefix)) = prefix

\* s.replace(/\\/g, '/')
ReplaceBackslashes(s) == [i \in 1..Len(s) |-> IF s[i] = "\\" THEN "/" ELSE s[i]]

validateFilePath(filePath) ==
  LET normalizedRepoPath == ReplaceBackslashes(repositoryPath)
      normalizedFilePath == ReplaceBackslashes(filePath)
  IN  \/ StartsWith(normalizedFilePath, normalizedRepoPath)
      \/ StartsWith(normalizedFilePath, <<".", "/">>)
      \/ ~StartsWith(normalizedFilePath, <<"/">>)

\* validateFilePath over the paths of the model, computed once
validPath == [p \in Paths |-> validateFilePath(p)]

\* s.split('/'): the segments between the slashes
RECURSIVE SplitFrom(_, _, _)
SplitFrom(s, i, cur) ==
  IF i > Len(s) THEN <<cur>>
  ELSE IF s[i] = "/" THEN <<cur>> \o SplitFrom(s, i + 1, <<>>)
  ELSE SplitFrom(s, i + 1, Append(cur, s[i]))

Split(s) == SplitFrom(s, 1, <<>>)

\* POSIX normalisation of a list of segments: '' and '.' are dropped, '..'
\* removes the segment before it (and is dropped at the root)
RECURSIVE NormalizeSegments(_, _)
NormalizeSegments(segs, out) ==
  IF segs = <<>> THEN out
  ELSE LET s == Head(segs)
       IN  IF s = <<>> \/ s = <<".">> THEN NormalizeSegments(Tail(segs), out)
           ELSE IF s = <<".", ".">>
             THEN NormalizeSegments(Tail(segs),
                    IF out = <<>> THEN out ELSE SubSeq(out, 1, Len(out) - 1))
           ELSE NormalizeSegments(Tail(segs), Append(out, s))

\* the absolute location fs opens for a path: path.resolve(cwd, filePath)
Resolve(filePath) ==
  IF StartsWith(filePath, <<"/">>)
    THEN NormalizeSegments(Split(filePath), <<>>)
    ELSE NormalizeSegments(Split(cwd) \o Split(filePath), <<>>)

\* the location lies under the repository root
UnderRoot(filePath) ==
  LET root == Resolve(repositoryPath)
      loc  == Resolve(filePath)
  IN  /\ Len(root) <= Len(loc)
      /\ SubSeq(loc, 1, Len(root)) = root

----------------------------------------------------------------------------
(* File contents, representations and relationships *)

\* longest relationship list a file content yields
MaxRels == 2

\* The contents a file can have.  A content stands for the text of a file;
\* what the analyzer extracts from it is given by extractRelationships.
ContentsOf(file) == IF file = FileA THEN {"v1", "v2"} ELSE {"v1"}

\* the absent CodeRepresentation (null)
NoRep ==
  [filePath |-> <<>>, content |-> "none", biasScore |-> 0]

Edge(from, to, type) == [from |-> from, to |-> to, type |-> type]

\* CodeAnalyzer.extractRelationships, by content: the relationship lists in
\* the order storeFileRelationships stores them (imports before calls)
extractRelationships(filePath, content) ==
  IF content = "v1" THEN <<Edge(filePath, <<"m">>, "imports")>>
  ELSE IF content = "v2"
    THEN <<Edge(filePath, <<"n">>, "imports"), Edge(filePath, <<"m">>, "calls")>>
  ELSE <<>>

\* What the environment does during one run of the per-file pipeline:
\*   read       readFile succeeds
\*   encode     the embedding oracle answers CodeEncoder.encode
\*   embed      the embedding oracle answers SemanticEmbedder.embed
\*   complete   the completion oracle answers extractSemanticFeatures
\*   relsStored how many storeRelationship calls succeed before one throws
\*              (no call throws when it is at least the number of relations)
\*   storeRep   storeCodeRepresentation succeeds
\*   delete     deleteFileRelationships succeeds
\*   now        what new Date() reads during the run
AllEnvs ==
  [read : BOOLEAN, encode : BOOLEAN, embed : BOOLEAN, complete : BOOLEAN,
   relsStored : 0..MaxRels, storeRep : BOOLEAN, delete : BOOLEAN,
   now : 0..MaxCalls]

\* the environments in which the oracle service answers every call of a run
\* or none, and the clock has not ticked since the processor was built
Envs ==
  {env \in AllEnvs :
     env.encode = env.embed /\ env.embed = env.complete /\ env.now = 0}

\* no failure
EnvOk ==
  [read |-> TRUE, encode |-> TRUE, embed |-> TRUE, complete |-> TRUE,
   relsStored |-> MaxRels, storeRep |-> TRUE, delete |-> TRUE, now |-> 0]

\* the environments a run of the pipeline can tell apart, each oracle call
\* failing or not on its own
OracleEnvs ==
  {env \in AllEnvs :
     /\ env.delete
     /\ env.now = 0
     /\ ~env.read => [env EXCEPT !.read = TRUE] = EnvOk
     /\ env.relsStored < MaxRels => env.storeRep}

\* the environments an update of a given change type can tell apart: a
\* delete meets deleteFileRelationships only; the pipeline never deletes, and
\* meets nothing after a failed read
EnvsFor(changeType) ==
  IF changeType = "deleted"
    THEN {env \in Envs : [env EXCEPT !.delete = TRUE] = EnvOk}
  ELSE IF changeType \in {"created", "modified"}
    THEN {env \in Envs :
            /\ env.delete
            /\ ~env.read => [env EXCEPT !.read = TRUE] = EnvOk
            /\ env.relsStored < MaxRels => env.storeRep}
  ELSE {EnvOk}

\* the file fs opens for filePath, if it is one of the disk's files
DiskFileOf(filePath) == {f \in DiskFiles : Resolve(f) = Resolve(filePath)}

\* DiskFileOf over the paths of the model, computed once
diskFileAt == [p \in Paths |-> DiskFileOf(p)]

ContentAt(files, env) ==
  IF env.read /\ files # {} THEN disk[CHOOSE f \in files : TRUE] ELSE "none"

\* readFile(filePath, 'utf-8'): the content, or "none" when the read throws
readFile(filePath, env) == ContentAt(diskFileAt[filePath], env)

\* the environments a run of the pipeline on filePath can tell apart: the
\* read of a path that names no file throws whatever the environment does
PipelineEnvs(filePath) ==
  IF diskFileAt[filePath] = {} THEN {EnvOk} ELSE EnvsFor("created")

\* the environments updateFile(filePath, changeType) can tell apart: a
\* rejected path meets none of the collaborators
EnvsAt(filePath, changeType) ==
  IF ~validPath[filePath] THEN {EnvOk}
  ELSE IF changeType \in {"created", "modified"} THEN PipelineEnvs(filePath)
  ELSE EnvsFor(changeType)

\* one more stage in the log of the stages run, and whether it went through
Log(st, stage, filePath, ok) ==
  [st EXCEPT !.stages =
     Append(@, [stage |-> stage, path |-> filePath, ok |-> ok])]

\* the representation analyzeFile builds from the content read
RepresentationOf(filePath, content, now) ==
  IF content = "none" THEN NoRep
  ELSE [filePath |-> filePath, content |-> content, lastModified |-> now,
        semanticFeatures |-> [embedding |-> <<>>, functionalSignature |-> "",
                              behaviorPattern |-> ""],
        biasScore |-> 0, augmentedEmbedding |-> <<>>]

\* CodeAnalyzer.analyzeFile: null when the read throws
analyzeFile(filePath, env) ==
  RepresentationOf(filePath, readFile(filePath, env), env.now)

\* the structural features the analyzer extracts, by content
structuralFeatures(content) ==
  IF content = "v1"
    THEN [complexity |-> 1, nestingDepth |-> 0, functionCount |-> 0, classCount |-> 0]
    ELSE [complexity |-> 3, nestingDepth |-> 2, functionCount |-> 1, classCount |-> 0]

Abs(x) == IF x < 0 THEN -x ELSE x

Max3(a, b, c) ==
  IF a >= b /\ a >= c THEN a ELSE IF b >= c THEN b ELSE c

\* 1 - |a - b| / max(a, b, 1), in thousandths
MetricSimilarity(a, b) == 1000 - ((1000 * Abs(a - b)) \div Max3(a, b, 1))

\* TextualBiasDetector.calculateStructuralSimilarity, in thousandths: the
\* mean of the similarities of the four metrics
calculateStructuralSimilarity(struct1, struct2) ==
  ( MetricSimilarity(struct1.complexity, struct2.complexity)
  + MetricSimilarity(struct1.nestingDepth, struct2.nestingDepth)
  + MetricSimilarity(struct1.functionCount, struct2.functionCount)
  + MetricSimilarity(struct1.classCount, struct2.classCount) ) \div 4

\* TextualBiasDetector.calculateBiasScore, in thousandths
calculateBiasScore(original, masked) ==
  LET biasScore == 1000 - calculateStructuralSimilarity(original, masked)
  IN  IF biasScore < 0 THEN 0 ELSE IF biasScore > 1000 THEN 1000 ELSE biasScore

\* a variant whose masked copy loses the structure with the text
maskedStructuralFeatures_Lost(content) ==
  [complexity |-> 1, nestingDepth |-> 0, functionCount |-> 0, classCount |-> 0]

\* the structural features of the copy maskTextualFeatures builds:
\* {...code, textualFeatures: ...} replaces the textual features only
maskedStructuralFeatures(content) == structuralFeatures(content)

\* TextualBiasDetector.detectBias: the original is scored against its masked
\* copy
detectBias(code) ==
  calculateBiasScore(structuralFeatures(code.content),
                     maskedStructuralFeatures(code.content))

\* the vectors the embedding oracle answers with, in tenths
CodeEmbedding == <<1, 2>>
SemanticEmbedding == <<3>>

\* CodeEncoder.encode: the empty vector when the oracle call throws
encode(codeContent, env) == IF env.encode THEN CodeEmbedding ELSE <<>>

\* SemanticEmbedder.embed: the empty vector when the oracle call throws
embed(code, env) == IF env.embed THEN SemanticEmbedding ELSE <<>>

\* SemanticAugmenter.extractSemanticFeatures: the placeholder texts when the
\* oracle call throws
extractSemanticFeatures(code, env) ==
  IF env.complete
    THEN [functionalSignature |-> "described", behaviorPattern |-> "described"]
    ELSE [functionalSignature |-> "Error analyzing function signature",
          behaviorPattern |-> "Error analyzing behavior pattern"]

\* embedding[i] || 0
At(embedding, i) == IF i <= Len(embedding) THEN embedding[i] ELSE 0

\* SemanticAugmenter.combineEmbeddings: 0.3 base + 0.7 semantic, in hundredths
combineEmbeddings(baseEmbedding, semanticEmbedding) ==
  [i \in 1..(IF Len(baseEmbedding) >= Len(semanticEmbedding)
               THEN Len(baseEmbedding) ELSE Len(semanticEmbedding)) |->
     At(baseEmbedding, i) * 3 + At(semanticEmbedding, i) * 7]

\* a variant that gives up on the representation when an oracle call failed
augmentRepresentation_NullOnFailure(code, env) ==
  IF env.encode /\ env.embed /\ env.complete
    THEN [code EXCEPT
            !.semanticFeatures =
               [embedding |-> SemanticEmbedding,
                functionalSignature |-> "described",
                behaviorPattern |-> "described"],
            !.augmentedEmbedding =
               combineEmbeddings(CodeEmbedding, SemanticEmbedding)]
    ELSE NoRep

\* the representation augmentRepresentation returns
augmentedWith(code, baseEmbedding, semanticEmbedding, features) ==
  [code EXCEPT
     !.semanticFeatures =
        [embedding |-> semanticEmbedding,
         functionalSignature |-> features.functionalSignature,
         behaviorPattern |-> features.behaviorPattern],
     !.augmentedEmbedding = combineEmbeddings(baseEmbedding, semanticEmbedding)]

\* SemanticAugmenter.augmentRepresentation: never throws, its three oracle
\* calls catch their failures
augmentRepresentation(code, env) ==
  augmentedWith(code, encode(code.content, env), embed(code, env),
                extractSemanticFeatures(code, env))

\* GraphitiClient.storeFileRelationships: stores the relations one by one and
\* rethrows the first failure
storeFileRelationships(st, filePath, relationships, env) ==
  LET n == IF env.relsStored < Len(relationships)
             THEN env.relsStored ELSE Len(relationships)
  IN  [st |-> [st EXCEPT
                 !.graphEdges = @ \cup {relationships[i] : i \in 1..n},
                 !.stages = Append(@, [stage |-> "storeRelationships",
                                       path |-> filePath,
                                       ok |-> n >= Len(relationships)])],
       raised |-> n < Len(relationships)]

\* GraphitiClient.storeCodeRepresentation
storeCodeRepresentation(st, code, env) ==
  [st |-> [st EXCEPT
             !.graphReps[code.filePath] = IF env.storeRep THEN code ELSE @,
             !.stages = Append(@, [stage |-> "storeRepresentation",
                                   path |-> code.filePath,
                                   ok |-> env.storeRep])],
   raised |-> ~env.storeRep]

\* GraphitiClient.deleteFileRelationships
deleteFileRelationships(st, filePath, env) ==
  [st |-> [st EXCEPT
             !.graphReps[filePath] = IF env.delete THEN NoRep ELSE @,
             !.graphEdges =
                IF env.delete
                  THEN {e \in @ : e.from # filePath /\ e.to # filePath}
                  ELSE @,
             !.stages = Append(@, [stage |-> "delete", path |-> filePath,
                                   ok |-> env.delete])],
   raised |-> ~env.delete]

\* a variant that returns the representation whatever the store did
processFileStored_IgnoreFailure(sr, augmented) ==
  [st |-> sr.st, ret |-> augmented]

\* processFile, step 4: the relationships are stored; a throw is caught and
\* null is returned
processFileStored(sr, augmented) ==
  [st |-> sr.st, ret |-> IF sr.raised THEN NoRep ELSE augmented]

\* processFile, steps 2 and 3: the bias score is set and the representation
\* augmented
processFileAugment(codeRep, env) ==
  augmentRepresentation([codeRep EXCEPT !.biasScore = detectBias(codeRep)], env)

\* processFile after step 1
processFileAnalyzed(st, filePath, codeRep, env) ==
  IF codeRep = NoRep
    THEN [st |-> Log(st, "read", filePath, FALSE), ret |-> NoRep]
    ELSE processFileStored(
           storeFileRelationships(
             [st EXCEPT !.stages =
                @ \o <<[stage |-> "read", path |-> filePath, ok |-> TRUE],
                       [stage |-> "extract", path |-> filePath, ok |-> TRUE],
                       [stage |-> "bias", path |-> filePath, ok |-> TRUE],
                       [stage |-> "encode", path |-> filePath,
                        ok |-> env.encode],
                       [stage |-> "embed", path |-> filePath,
                        ok |-> env.embed],
                       [stage |-> "complete", path |-> filePath,
                        ok |-> env.complete]>>],
             filePath, extractRelationships(filePath, codeRep.content), env),
           processFileAugment(codeRep, env))

\* SACLProcessor.processFile: the representation, or null (NoRep) on any
\* failure; never throws
processFile(st, filePath, env) ==
  processFileAnalyzed(st, filePath, analyzeFile(filePath, env), env)

----------------------------------------------------------------------------
(* Graph Store reads: the client's synthetic results *)

\* largest limit asked of searchCode
MaxLimit == 6

Min(a, b) == IF a <= b THEN a ELSE b

Digit(i) == <<"0", "1", "2", "3", "4", "5", "6", "7", "8", "9">>[i + 1]

\* `src/example${i}.py`
ExamplePath(i) ==
  <<"s", "r", "c", "/", "e", "x", "a", "m", "p", "l", "e">>
    \o <<Digit(i)>> \o <<".", "p", "y">>

\* GraphitiClient.searchCode / createMockSearchResults: min(limit, 5)
\* synthetic representations, whatever the store holds
searchCode(query, limit) ==
  [i \in 1..Min(limit, 5) |->
     [filePath |-> ExamplePath(i), content |-> "mock",
      semanticFeatures |-> [embedding |-> <<>>,
                            functionalSignature |-> "described",
                            behaviorPattern |-> "described"],
      biasScore |-> 300 + (i - 1) * 100, augmentedEmbedding |-> <<>>]]

\* s.includes(sub)
Includes(s, sub) ==
  \E i \in 1..(Len(s) - Len(sub) + 1) : SubSeq(s, i, i + Len(sub) - 1) = sub

\* s.replace(sub, by): the first occurrence only
ReplaceFirst(s, sub, by) ==
  IF Includes(s, sub)
    THEN LET i == CHOOSE i \in 1..(Len(s) - Len(sub) + 1) :
                    /\ SubSeq(s, i, i + Len(sub) - 1) = sub
                    /\ \A j \in 1..(i - 1) : SubSeq(s, j, j + Len(sub) - 1) # sub
         IN  SubSeq(s, 1, i - 1) \o by \o SubSeq(s, i + Len(sub), Len(s))
    ELSE s

\* s.replace(/\.[^.]+$/, '.test$&'): '.test' goes before the last dot when
\* at least one character follows it
InsertTest(s) ==
  LET dots == {i \in 1..Len(s) : s[i] = "."}
  IN  IF dots = {} THEN s
      ELSE LET i == CHOOSE i \in dots : \A j \in dots : j <= i
           IN  IF i = Len(s) THEN s
               ELSE SubSeq(s, 1, i - 1) \o <<".", "t", "e", "s", "t">>
                      \o SubSeq(s, i, Len(s))

Service == <<"S", "e", "r", "v", "i", "c", "e">>
Controller == <<"C", "o", "n", "t", "r", "o", "l", "l", "e", "r">>

\* filePath.split('/').pop() || ''
FileName(filePath) == LET segs == Split(filePath) IN segs[Len(segs)]

\* RelationshipTraversalConfig defaults of getRelatedComponents; scores are
\* in hundredths
defaultRelationshipTypes == {"imports", "exports", "calls", "extends", "implements"}
defaultMinRelevanceScore == 30

\* GraphitiClient.createMockRelatedComponents
createMockRelatedComponents(filePath, config) ==
  LET fileName == FileName(filePath)
      service ==
        IF Includes(fileName, Service)
          THEN <<[filePath |-> ReplaceFirst(filePath, Service, Controller),
                  relationshipType |-> "calls", relevanceScore |-> 90,
                  distance |-> 1]>>
          ELSE <<>>
      controller ==
        IF Includes(fileName, Controller)
          THEN <<[filePath |-> ReplaceFirst(filePath, Controller, Service),
                  relationshipType |-> "imports", relevanceScore |-> 95,
                  distance |-> 1]>>
          ELSE <<>>
      generic ==
        <<[filePath |-> InsertTest(filePath), relationshipType |-> "depends_on",
           relevanceScore |-> 70, distance |-> 1]>>
      kept(comp) ==
        /\ comp.relevanceScore >= config.minRelevanceScore
        /\ comp.distance <= config.maxDepth
      filtered == SelectSeq(service \o controller \o generic, kept)
  IN  SubSeq(filtered, 1, Min(Len(filtered), 5))

\* GraphitiClient.getRelatedComponents as SACLProcessor.getRelatedComponents
\* calls it: only maxDepth is given, the rest are the defaults
getRelatedComponents(filePath, maxDepth) ==
  createMockRelatedComponents(filePath,
    [maxDepth |-> maxDepth, relationshipTypes |-> defaultRelationshipTypes,
     minRelevanceScore |-> defaultMinRelevanceScore])

----------------------------------------------------------------------------
(* Orchestrator: SACLProcessor *)

\* config.biasThreshold, in thousandths
biasThreshold == 500

ChangeTypes == {"created", "modified", "deleted", "renamed"}

\* this.cache.set(filePath, processed) when config.cacheEnabled
cacheSet(st, filePath, processed) ==
  IF cacheEnabled
    THEN Log([st EXCEPT !.cache[filePath] = processed], "cacheSet", filePath, TRUE)
    ELSE st

\* this.cache.delete(filePath)
cacheDelete(st, filePath) ==
  Log([st EXCEPT !.cache[filePath] = NoRep], "cacheDelete", filePath, TRUE)

Returned(st, success, message) ==
  [st |-> st, raised |-> FALSE, success |-> success, message |-> message]

Thrown(st) ==
  [st |-> st, raised |-> TRUE, success |-> FALSE, message |-> "thrown"]

\* a variant that caches the representation whatever the store did
updateFileStored_CacheAnyway(sr, filePath, processed) ==
  IF sr.raised
    THEN Thrown(cacheSet(sr.st, filePath, processed))
    ELSE Returned(cacheSet(sr.st, filePath, processed), TRUE,
                  "processed successfully")

\* updateFile, created/modified, after storeCodeRepresentation
updateFileStored(sr, filePath, processed) ==
  IF sr.raised
    THEN Thrown(sr.st)
    ELSE Returned(cacheSet(sr.st, filePath, processed), TRUE,
                  "processed successfully")

\* updateFile, created/modified, after processFile
updateFileProcessed(pf, filePath, env) ==
  IF pf.ret # NoRep
    THEN updateFileStored(storeCodeRepresentation(pf.st, pf.ret, env),
                          filePath, pf.ret)
    ELSE Returned(pf.st, FALSE, "failed to process")

\* updateFile, deleted, after deleteFileRelationships
updateFileDeleted(dl) ==
  IF dl.raised THEN Thrown(dl.st) ELSE Returned(dl.st, TRUE, "removed")

\* a variant that validates the path of a delete after the cache entry is
\* dropped
updateFileTry_ValidateAfterDelete(st, filePath, changeType, env) ==
  IF changeType = "deleted"
    THEN IF ~validPath[filePath]
           THEN Returned(cacheDelete(st, filePath), FALSE, "outside repository")
           ELSE updateFileDeleted(
                  deleteFileRelationships(cacheDelete(st, filePath), filePath, env))
  ELSE IF ~validPath[filePath]
    THEN Returned(st, FALSE, "outside repository")
  ELSE IF changeType \in {"created", "modified"}
    THEN updateFileProcessed(processFile(st, filePath, env), filePath, env)
  ELSE Returned(st, FALSE, "unknown change type")

\* a variant that drops the cache entry only once the Graph Store has
\* deleted
updateFileTry_DeleteStoreFirst(st, filePath, changeType, env) ==
  IF ~validPath[filePath]
    THEN Returned(st, FALSE, "outside repository")
  ELSE IF changeType \in {"created", "modified"}
    THEN updateFileProcessed(processFile(st, filePath, env), filePath, env)
  ELSE IF changeType = "deleted"
    THEN LET dl == deleteFileRelationships(st, filePath, env)
         IN  IF dl.raised THEN Thrown(dl.st)
             ELSE Returned(cacheDelete(dl.st, filePath), TRUE, "removed")
  ELSE Returned(st, FALSE, "unknown change type")

\* the try block of SACLProcessor.updateFile
updateFileTry(st, filePath, changeType, env) ==
  IF ~validPath[filePath]
    THEN Returned(st, FALSE, "outside repository")
  ELSE IF changeType \in {"created", "modified"}
    THEN updateFileProcessed(processFile(st, filePath, env), filePath, env)
  ELSE IF changeType = "deleted"
    THEN updateFileDeleted(
           deleteFileRelationships(cacheDelete(st, filePath), filePath, env))
  ELSE Returned(st, FALSE, "unknown change type")

\* a variant without the catch block
updateFileCatch_Rethrow(r) == r

\* the catch block of SACLProcessor.updateFile: every throw becomes a
\* {success: false} record
updateFileCatch(r) ==
  IF r.raised THEN Returned(r.st, FALSE, "error updating file") ELSE r

\* SACLProcessor.updateFile
updateFile(st, filePath, changeType, env) ==
  updateFileCatch(updateFileTry(st, filePath, changeType, env))

\* a variant that reports the successful items only
updateFilesItem_SuccessOnly(a, file, r) ==
  [results |-> IF r.success
                 THEN Append(a.results,
                        [filePath |-> file.filePath, success |-> r.success,
                         message |-> r.message])
                 ELSE a.results,
   successfulUpdates |-> a.successfulUpdates + (IF r.success THEN 1 ELSE 0),
   failedUpdates |-> a.failedUpdates + (IF r.success THEN 0 ELSE 1)]

\* a variant that counts a rejected path neither as successful nor as failed
updateFilesItem_RejectedUncounted(a, file, r) ==
  [results |-> Append(a.results,
                 [filePath |-> file.filePath, success |-> r.success,
                  message |-> r.message]),
   successfulUpdates |-> a.successfulUpdates + (IF r.success THEN 1 ELSE 0),
   failedUpdates |-> a.failedUpdates +
      (IF r.success \/ r.message = "outside repository" THEN 0 ELSE 1)]

\* the body of the loop of SACLProcessor.updateFiles: the counters and the
\* per-item results after one more item
updateFilesItem(a, file, r) ==
  [results |-> Append(a.results,
                 [filePath |-> file.filePath, success |-> r.success,
                  message |-> r.message]),
   successfulUpdates |-> a.successfulUpdates + (IF r.success THEN 1 ELSE 0),
   failedUpdates |-> a.failedUpdates + (IF r.success THEN 0 ELSE 1)]

\* processRepository, one file: the statistics once processFile returned a
\* representation
processRepositoryCount(a, processed) ==
  [a EXCEPT
     !.filesProcessed = @ + 1,
     !.totalBiasScore = @ + processed.biasScore,
     !.biasDetected = @ + (IF processed.biasScore > biasThreshold THEN 1 ELSE 0)]

\* a variant whose loop body has no catch
processRepositoryStored_NoCatch(sr, a, filePath, processed) ==
  IF sr.raised
    THEN [st |-> sr.st, acc |-> a, raised |-> TRUE]
    ELSE [st |-> cacheSet(sr.st, filePath, processed), acc |-> a,
          raised |-> FALSE]

\* processRepository, one file, after storeCodeRepresentation: the catch of
\* the loop body logs a throw and the loop goes on
processRepositoryStored(sr, a, filePath, processed) ==
  IF sr.raised
    THEN [st |-> sr.st, acc |-> a, raised |-> FALSE]
    ELSE [st |-> cacheSet(sr.st, filePath, processed), acc |-> a,
          raised |-> FALSE]

\* processRepository, one file, after processFile
processRepositoryProcessed(pf, a, filePath, env) ==
  IF pf.ret # NoRep
    THEN processRepositoryStored(
           storeCodeRepresentation(pf.st, pf.ret, env),
           processRepositoryCount(a, pf.ret), filePath, pf.ret)
    ELSE [st |-> pf.st, acc |-> a, raised |-> FALSE]

\* the body of the loop of SACLProcessor.processRepository for one file
processRepositoryFile(st, a, filePath, env) ==
  processRepositoryProcessed(processFile(st, filePath, env), a, filePath, env)

\* the discovery order of findCodeFiles: its result is sorted
RepositoryFiles == <<FileA, FileB>>

\* CodeAnalyzer.findCodeFiles: the existing source files under the root,
\* deduplicated and sorted; the empty list when glob throws
findCodeFiles(globOk) ==
  IF globOk
    THEN SelectSeq(RepositoryFiles, LAMBDA f : f \in DOMAIN disk)
    ELSE <<>>

----------------------------------------------------------------------------
(* State machine: one caller at a time, one loop iteration per step *)

NoAcc == [op |-> "none"]

NoResult == [op |-> "none"]

\* the processor's and the store's state at the start of an operation
St ==
  [cache |-> cache, graphReps |-> graphReps, graphEdges |-> graphEdges,
   stages |-> <<>>]

\* the same inside a running loop, whose stage log goes on
StRunning == [St EXCEPT !.stages = stages]

Commit(st) ==
  /\ cache' = st.cache
  /\ graphReps' = st.graphReps
  /\ graphEdges' = st.graphEdges
  /\ stages' = st.stages

\* the items a batch is made of
BatchItems == [filePath : {FileA, Outside}, changeType : {"modified", "deleted"}]

RECURSIVE SeqsUpTo(_, _)
SeqsUpTo(S, n) ==
  IF n = 0 THEN {<<>>}
  ELSE LET shorter == SeqsUpTo(S, n - 1)
       IN  shorter \cup {Append(q, x) : q \in shorter, x \in S}

Batches == SeqsUpTo(BatchItems, MaxBatch)

\* a caller issues one more operation, the result of the last one taken
Issue ==
  /\ result = NoResult
  /\ calls < MaxCalls
  /\ calls' = calls + 1

Init ==
  /\ cacheEnabled \in BOOLEAN
  /\ disk = [f \in DiskFiles |-> "v1"]
  /\ cache = [p \in Paths |-> NoRep]
  /\ graphReps = [p \in Paths |-> NoRep]
  /\ graphEdges = {}
  /\ stages = <<>>
  /\ pc = "idle"
  /\ work = <<>>
  /\ idx = 0
  /\ acc = NoAcc
  /\ result = NoResult
  /\ calls = 0

\* the environment rewrites a source file of the repository
EditFile(f, content) ==
  /\ pc = "idle"
  /\ result = NoResult
  /\ content # disk[f]
  /\ disk' = [disk EXCEPT ![f] = content]
  /\ UNCHANGED <<calls, cacheEnabled, cache, graphReps, graphEdges, stages,
                 pc, work, idx, acc, result>>

\* the awaiting caller takes the value an operation returned or the error it
\* raised
Receive ==
  /\ pc = "idle"
  /\ result # NoResult
  /\ result' = NoResult
  /\ stages' = <<>>
  /\ UNCHANGED <<calls, cacheEnabled, disk, cache, graphReps, graphEdges,
                 pc, work, idx, acc>>

UpdateFileReturns(r, filePath, changeType) ==
  /\ Commit(r.st)
  /\ result' = [op |-> "updateFile", filePath |-> filePath,
                changeType |-> changeType, raised |-> r.raised,
                success |-> r.success, message |-> r.message]

ProcessFileReturns(r, filePath) ==
  /\ Commit(r.st)
  /\ result' = [op |-> "processFile", filePath |-> filePath,
                raised |-> FALSE, ret |-> r.ret]

\* after one iteration of the loop of updateFiles; a throw of updateFile
\* would leave the loop and updateFiles
UpdateFilesStepped(r, file) ==
  /\ Commit(r.st)
  /\ acc' = updateFilesItem(acc, file, r)
  /\ IF r.raised
       THEN /\ pc' = "idle"
            /\ work' = <<>>
            /\ idx' = 0
            /\ result' = [op |-> "updateFiles", files |-> work, raised |-> TRUE]
       ELSE /\ idx' = idx + 1
            /\ UNCHANGED <<pc, work, result>>

\* after one iteration of the loop of processRepository; a throw that left
\* the loop body would leave processRepository
ProcessRepositoryStepped(r) ==
  /\ Commit(r.st)
  /\ acc' = r.acc
  /\ IF r.raised
       THEN /\ pc' = "idle"
            /\ work' = <<>>
            /\ idx' = 0
            /\ result' = [op |-> "processRepository", codeFiles |-> work,
                          raised |-> TRUE]
       ELSE /\ idx' = idx + 1
            /\ UNCHANGED <<pc, work, result>>

\* await processor.updateFile(filePath, changeType)
UpdateFile(filePath, changeType, env) ==
  /\ pc = "idle"
  /\ Issue
  /\ UpdateFileReturns(updateFile(St, filePath, changeType, env),
                       filePath, changeType)
  /\ UNCHANGED <<cacheEnabled, disk, pc, work, idx, acc>>

\* await processor.processFile(filePath)
ProcessFile(filePath, env) ==
  /\ pc = "idle"
  /\ Issue
  /\ ProcessFileReturns(processFile(St, filePath, env), filePath)
  /\ UNCHANGED <<cacheEnabled, disk, pc, work, idx, acc>>

\* processor.updateFiles(files) is called
UpdateFilesCall(files) ==
  /\ pc = "idle"
  /\ Issue
  /\ pc' = "updateFiles"
  /\ work' = files
  /\ idx' = 1
  /\ acc' = [results |-> <<>>, successfulUpdates |-> 0, failedUpdates |-> 0]
  /\ stages' = <<>>
  /\ result' = NoResult
  /\ UNCHANGED <<cacheEnabled, disk, cache, graphReps, graphEdges>>

\* one iteration of the loop of updateFiles
UpdateFilesStep(env) ==
  /\ pc = "updateFiles"
  /\ idx <= Len(work)
  /\ UpdateFilesStepped(
       updateFile(StRunning, work[idx].filePath, work[idx].changeType, env),
       work[idx])
  /\ UNCHANGED <<calls, cacheEnabled, disk>>

\* updateFiles returns its summary
UpdateFilesReturn ==
  /\ pc = "updateFiles"
  /\ idx > Len(work)
  /\ result' = [op |-> "updateFiles", files |-> work, raised |-> FALSE,
                totalFiles |-> Len(work),
                successfulUpdates |-> acc.successfulUpdates,
                failedUpdates |-> acc.failedUpdates,
                results |-> acc.results]
  /\ pc' = "idle"
  /\ work' = <<>>
  /\ idx' = 0
  /\ acc' = NoAcc
  /\ UNCHANGED <<calls, cacheEnabled, disk, cache, graphReps, graphEdges, stages>>

\* processor.processRepository() is called: the files are discovered
ProcessRepositoryCall(globOk) ==
  /\ pc = "idle"
  /\ Issue
  /\ pc' = "processRepository"
  /\ work' = findCodeFiles(globOk)
  /\ idx' = 1
  /\ acc' = [filesProcessed |-> 0, totalFiles |-> Len(findCodeFiles(globOk)),
             biasDetected |-> 0, totalBiasScore |-> 0]
  /\ stages' = <<>>
  /\ result' = NoResult
  /\ UNCHANGED <<cacheEnabled, disk, cache, graphReps, graphEdges>>

\* one iteration of the loop of processRepository
ProcessRepositoryStep(env) ==
  /\ pc = "processRepository"
  /\ idx <= Len(work)
  /\ ProcessRepositoryStepped(
       processRepositoryFile(StRunning, acc, work[idx], env))
  /\ UNCHANGED <<calls, cacheEnabled, disk>>

\* processRepository returns its statistics
ProcessRepositoryReturn ==
  /\ pc = "processRepository"
  /\ idx > Len(work)
  /\ result' = [op |-> "processRepository", codeFiles |-> work,
                raised |-> FALSE,
                filesProcessed |-> acc.filesProcessed,
                totalFiles |-> acc.totalFiles,
                biasDetected |-> acc.biasDetected,
                averageBiasScore |->
                  IF acc.filesProcessed > 0
                    THEN acc.totalBiasScore \div acc.filesProcessed ELSE 0]
  /\ pc' = "idle"
  /\ work' = <<>>
  /\ idx' = 0
  /\ acc' = NoAcc
  /\ UNCHANGED <<calls, cacheEnabled, disk, cache, graphReps, graphEdges, stages>>

\* await processor.cleanup()
Cleanup ==
  /\ pc = "idle"
  /\ Issue
  /\ cache' = [p \in Paths |-> NoRep]
  /\ stages' = <<>>
  /\ result' = [op |-> "cleanup", raised |-> FALSE]
  /\ UNCHANGED <<cacheEnabled, disk, graphReps, graphEdges, pc, work,
                 idx, acc>>

Next ==
  \/ \E f \in DiskFiles : \E content \in ContentsOf(f) : EditFile(f, content)
  \/ \E filePath \in Paths, changeType \in ChangeTypes :
       \E env \in EnvsAt(filePath, changeType) :
         UpdateFile(filePath, changeType, env)
  \/ \E filePath \in Paths :
       \E env \in PipelineEnvs(filePath) : ProcessFile(filePath, env)
  \/ \E files \in Batches : UpdateFilesCall(files)
  \/ \E env \in Envs :
       /\ pc = "updateFiles" /\ idx <= Len(work)
       /\ env \in EnvsAt(work[idx].filePath, work[idx].changeType)
       /\ UpdateFilesStep(env)
  \/ UpdateFilesReturn
  \/ \E globOk \in BOOLEAN : ProcessRepositoryCall(globOk)
  \/ \E env \in Envs :
       /\ pc = "processRepository" /\ idx <= Len(work)
       /\ env \in PipelineEnvs(work[idx])
       /\ ProcessRepositoryStep(env)
  \/ ProcessRepositoryReturn
  \/ Cleanup
  \/ Receive

Spec == Init /\ [][Next]_vars

----------------------------------------------------------------------------
(* Analyzer: CodeAnalyzer's structural features, on the text of a file *)

\* most lines a file content has
MaxLines == 2

\* path.extname(filePath): from the last dot of the file name on
ExtName(filePath) ==
  LET name == FileName(filePath)
      dots == {i \in 2..Len(name) : name[i] = "."}
  IN  IF dots = {} THEN <<>>
      ELSE SubSeq(name, CHOOSE i \in dots : \A j \in dots : j <= i, Len(name))

\* the extensions Babel parses
BabelExtensions == {<<".", "j", "s">>,
                    <<".", "j", "s", "x">>,
                    <<".", "t", "s">>,
                    <<".", "t", "s", "x">>}

\* s.trimStart() and s.trim()
RECURSIVE TrimStart(_)
TrimStart(s) ==
  IF s # <<>> /\ Head(s) = " " THEN TrimStart(Tail(s)) ELSE s

RECURSIVE TrimEnd(_)
TrimEnd(s) ==
  IF s # <<>> /\ s[Len(s)] = " " THEN TrimEnd(SubSeq(s, 1, Len(s) - 1)) ELSE s

Trim(s) == TrimEnd(TrimStart(s))

complexityKeywords ==
  <<<<"i", "f">>,
    <<"w", "h", "i", "l", "e">>,
    <<"f", "o", "r">>,
    <<"s", "w", "i", "t", "c", "h">>,
    <<"c", "a", "s", "e">>,
    <<"c", "a", "t", "c", "h">>,
    <<"&", "&">>,
    <<"|", "|">>,
    <<"?">>>>

functionKeywords ==
  <<<<"d", "e", "f", " ">>,
    <<"f", "u", "n", "c", "t", "i", "o", "n", " ">>,
    <<"f", "u", "n", "c", " ">>,
    <<"p", "u", "b", "l", "i", "c", " ">>,
    <<"p", "r", "i", "v", "a", "t", "e", " ">>,
    <<"p", "r", "o", "t", "e", "c", "t", "e", "d", " ">>>>

classKeywords ==
  <<<<"c", "l", "a", "s", "s", " ">>,
    <<"i", "n", "t", "e", "r", "f", "a", "c", "e", " ">>,
    <<"s", "t", "r", "u", "c", "t", " ">>>>

\* how many of the keywords, given by their positions, count for a line
CountOf(positions) == Cardinality(positions)

\* the loop body of extractStructuralHeuristics: the features after one more
\* line
heuristicLine(features, line) ==
  LET trimmed == Trim(line)
      indent == Len(line) - Len(TrimStart(line))
      currentIndent == indent \div 2
      complex == {i \in 1..Len(complexityKeywords) :
                    Includes(trimmed, complexityKeywords[i])}
      functions == {i \in 1..Len(functionKeywords) :
                      \/ StartsWith(trimmed, functionKeywords[i])
                      \/ Includes(trimmed, functionKeywords[i] \o <<" ">>)}
      classes == {i \in 1..Len(classKeywords) :
                    StartsWith(trimmed, classKeywords[i])}
  IN  [astNodes |-> features.astNodes,
       complexity |-> features.complexity + CountOf(complex),
       nestingDepth |-> IF currentIndent > features.nestingDepth
                          THEN currentIndent ELSE features.nestingDepth,
       functionCount |-> features.functionCount + CountOf(functions),
       classCount |-> features.classCount + CountOf(classes)]

RECURSIVE heuristicLines(_, _)
heuristicLines(features, lines) ==
  IF lines = <<>> THEN features
  ELSE heuristicLines(heuristicLine(features, Head(lines)), Tail(lines))

\* CodeAnalyzer.extractStructuralHeuristics, on content.split('\n')
extractStructuralHeuristics(lines) ==
  heuristicLines(
    [astNodes |-> Len(lines) * 2, complexity |-> 1, nestingDepth |-> 0,
     functionCount |-> 0, classCount |-> 0],
    lines)

\* the node types the traversal counts
ComplexityNodes ==
  {"IfStatement", "WhileStatement", "ForStatement", "SwitchCase",
   "ConditionalExpression", "LogicalExpression"}

FunctionNodes ==
  {"FunctionDeclaration", "FunctionExpression", "ArrowFunctionExpression"}

\* traverse(ast, {enter, exit}) over the enter and exit events of the tree in
\* the order Babel visits it: t is the features and the current depth
RECURSIVE traverse(_, _)
traverse(t, events) ==
  IF events = <<>> THEN t
  ELSE LET e == Head(events)
       IN  traverse(
             IF e = "exit"
               THEN [t EXCEPT !.currentDepth = @ - 1]
               ELSE [t EXCEPT
                       !.astNodes = @ + 1,
                       !.currentDepth = @ + 1,
                       !.maxDepth = IF t.currentDepth + 1 > @
                                      THEN t.currentDepth + 1 ELSE @,
                       !.complexity = @ + (IF e \in ComplexityNodes THEN 1 ELSE 0),
                       !.functionCount = @ + (IF e \in FunctionNodes THEN 1 ELSE 0),
                       !.classCount = @ + (IF e = "ClassDeclaration" THEN 1 ELSE 0)],
             Tail(events))

\* the features the Babel branch of extractStructuralFeatures ends with
astFeatures(events) ==
  LET t == traverse([astNodes |-> 0, complexity |-> 1, functionCount |-> 0,
                     classCount |-> 0, currentDepth |-> 0, maxDepth |-> 0],
                    events)
  IN  [astNodes |-> t.astNodes, complexity |-> t.complexity,
       nestingDepth |-> t.maxDepth, functionCount |-> t.functionCount,
       classCount |-> t.classCount]

NoFeatures == [astNodes |-> 0 - 1]

\* `features = this.extractStructuralHeuristics(content)`, features being
\* declared const: the build either keeps the const, and the assignment
\* throws a TypeError, or lowers it to var, and the assignment is made
assignHeuristics(lines, constAssignThrows) ==
  IF constAssignThrows
    THEN [raised |-> TRUE, features |-> NoFeatures]
    ELSE [raised |-> FALSE, features |-> extractStructuralHeuristics(lines)]

\* CodeAnalyzer.extractStructuralFeatures: parsed is what parse(content) and
\* the traversal give for the content, "SyntaxError" when they throw.  Every
\* throw of the try block, the TypeError of the else branch included, lands
\* in the catch block, which makes the same assignment.
extractStructuralFeatures(lines, extension, parsed, constAssignThrows) ==
  IF extension \in BabelExtensions /\ parsed # "SyntaxError"
    THEN [raised |-> FALSE, features |-> astFeatures(parsed)]
    ELSE assignHeuristics(lines, constAssignThrows)

\* analyzeFile after the read: the structural features of the representation,
\* null (NoFeatures) when the extraction threw
analyzeFileStructure(sf) ==
  IF sf.raised THEN NoFeatures ELSE sf.features

\* the lines a file is made of
LineTexts ==
  {<<"i", "f", " ", "a", " ", "&", "&", " ", "b">>,
   <<"d", "e", "f", " ", "f">>,
   <<"c", "l", "a", "s", "s", " ", "C">>,
   <<"x">>}

Indents == {<<>>, <<" ", " ">>, <<" ", " ", " ", " ", " ">>}

Lines == {indent \o text : indent \in Indents, text \in LineTexts}

\* content.split('\n') has at least one line
Contents == {q \in SeqsUpTo(Lines, MaxLines) : q # <<>>}

\* what parse and traverse give for a file: a syntax error, or the enter and
\* exit events of its tree
Parses ==
  {"SyntaxError",
   <<"Program", "exit">>,
   <<"Program", "FunctionDeclaration", "IfStatement", "exit", "exit", "exit">>,
   <<"Program", "ClassDeclaration", "exit", "LogicalExpression", "exit", "exit">>}

AnalyzerInputs ==
  [filePath : DiskFiles, lines : Contents, parsed : Parses,
   constAssignThrows : BOOLEAN]

\* the analyzer alone: a file to analyze, nothing else going on
InitAnalyzer ==
  /\ cacheEnabled = TRUE
  /\ disk = [f \in DiskFiles |-> "v1"]
  /\ cache = [p \in Paths |-> NoRep]
  /\ graphReps = [p \in Paths |-> NoRep]
  /\ graphEdges = {}
  /\ stages = <<>>
  /\ pc = "analyzer"
  /\ work \in AnalyzerInputs
  /\ idx = 0
  /\ acc = NoAcc
  /\ result = NoResult
  /\ calls = 0

\* analyzeFile extracts the structural features of the file read
AnalyzeFile ==
  /\ pc = "analyzer"
  /\ result = NoResult
  /\ result' =
       [op |-> "analyzeFile", raised |-> FALSE,
        structuralFeatures |->
          analyzeFileStructure(
            extractStructuralFeatures(work.lines, ExtName(work.filePath),
                                      work.parsed, work.constAssignThrows))]
  /\ UNCHANGED <<cacheEnabled, disk, cache, graphReps, graphEdges, stages,
                 pc, work, idx, acc, calls>>

NextAnalyzer == AnalyzeFile

SpecAnalyzer == InitAnalyzer /\ [][NextAnalyzer]_vars

----------------------------------------------------------------------------
(* The per-file pipeline alone, each oracle call failing on its own *)

NextPipeline ==
  \/ \E f \in DiskFiles : \E content \in ContentsOf(f) : EditFile(f, content)
  \/ \E filePath \in DiskFiles, env \in OracleEnvs : ProcessFile(filePath, env)
  \/ \E filePath \in DiskFiles, changeType \in {"created", "modified"} :
       \E env \in OracleEnvs : UpdateFile(filePath, changeType, env)
  \/ Receive

SpecPipeline == Init /\ [][NextPipeline]_vars

----------------------------------------------------------------------------
(* Repository scans repeated over unchanged files, the clock running *)

\* the latest reading of the clock a stored representation carries
LastStamp(reps) ==
  IF \A p \in Paths : reps[p] = NoRep THEN 0
  ELSE CHOOSE t \in 0..MaxCalls :
         /\ \E p \in Paths : reps[p] # NoRep /\ reps[p].lastModified = t
         /\ \A p \in Paths : reps[p] # NoRep => reps[p].lastModified <= t

\* the environments of a scan whose reads and oracle calls all answer: the
\* clock never runs backwards, and has ticked at most once for each call
RepeatEnvs ==
  {env \in AllEnvs :
     /\ [env EXCEPT !.storeRep = TRUE, !.now = 0] = EnvOk
     /\ LastStamp(graphReps) <= env.now
     /\ env.now <= calls}

NextRepeat ==
  \/ \E globOk \in BOOLEAN : ProcessRepositoryCall(globOk)
  \/ \E env \in RepeatEnvs : ProcessRepositoryStep(env)
  \/ ProcessRepositoryReturn
  \/ Receive

SpecRepeat == Init /\ [][NextRepeat]_vars

----------------------------------------------------------------------------
(* Analyzer: CodeAnalyzer's relationship extraction, run twice on a file *)

\* '/w/c.c': a source file of a language the analyzer has no parser for
FileC == <<"/", "w", "/", "c", ".", "c">>

\* path.dirname(p): up to the last slash
Dirname(p) ==
  LET slashes == {i \in 1..Len(p) : p[i] = "/"}
  IN  IF slashes = {} THEN <<".">>
      ELSE LET last == CHOOSE i \in slashes : \A j \in slashes : j <= i
           IN  IF last = 1 THEN <<"/">> ELSE SubSeq(p, 1, last - 1)

\* the path string of a list of segments under the root directory
RECURSIVE JoinSegments(_)
JoinSegments(segs) ==
  IF segs = <<>> THEN <<>> ELSE <<"/">> \o Head(segs) \o JoinSegments(Tail(segs))

\* CodeAnalyzer.resolveImportPath
resolveImportPath(importPath, currentFile) ==
  IF StartsWith(importPath, <<".", "/">>) \/ StartsWith(importPath, <<".", ".", "/">>)
    THEN JoinSegments(Resolve(Dirname(currentFile) \o <<"/">> \o importPath))
    ELSE importPath

\* s.split(',').map(x => x.trim())
RECURSIVE SplitCommaFrom(_, _, _)
SplitCommaFrom(s, i, cur) ==
  IF i > Len(s) THEN <<Trim(cur)>>
  ELSE IF s[i] = "," THEN <<Trim(cur)>> \o SplitCommaFrom(s, i + 1, <<>>)
  ELSE SplitCommaFrom(s, i + 1, Append(cur, s[i]))

SplitComma(s) == SplitCommaFrom(s, 1, <<>>)

\* a variant that keeps the relationships object of the call before
newRelationships_Reused(filePath, now) ==
  IF result # NoResult THEN result.relationships
  ELSE [filePath |-> filePath, imports |-> <<>>, exports |-> <<>>,
        functionCalls |-> <<>>, classInheritance |-> <<>>,
        dependencies |-> <<>>, compositions |-> <<>>, lastAnalyzed |-> now]

\* the CodeRelationships object extractRelationships starts from
newRelationships(filePath, now) ==
  [filePath |-> filePath, imports |-> <<>>, exports |-> <<>>,
   functionCalls |-> <<>>, classInheritance |-> <<>>,
   dependencies |-> <<>>, compositions |-> <<>>, lastAnalyzed |-> now]

\* content.split('\n')[lineNumber - 1] || ''
Statement(lines, lineNumber) ==
  IF lineNumber \in 1..Len(lines) THEN lines[lineNumber].text ELSE <<>>

\* the import type the loop over the specifiers of an import ends with
RECURSIVE importTypeOf(_, _)
importTypeOf(specifiers, importType) ==
  IF specifiers = <<>> THEN importType
  ELSE importTypeOf(Tail(specifiers),
                    IF Head(specifiers).kind = "named" THEN importType
                    ELSE Head(specifiers).kind)

\* CodeAnalyzer.findContainingFunction on the path of a call: the parent is
\* a named function declaration, or t.isMethodDefinition is called on it,
\* which throws a TypeError in a build whose @babel/types has no such
\* function, and otherwise the chain of parents ends
findContainingFunction(e, isMethodDefinitionThrows) ==
  IF e.parentFunction # "" THEN [raised |-> FALSE, name |-> e.parentFunction]
  ELSE IF isMethodDefinitionThrows THEN [raised |-> TRUE, name |-> ""]
  ELSE [raised |-> FALSE, name |-> "global"]

\* the visitor of extractJavaScriptRelationships on one node
visit(rel, e, lines, filePath, isMethodDefinitionThrows) ==
  IF e.type = "ImportDeclaration"
    THEN [raised |-> FALSE,
          rel |-> [rel EXCEPT !.imports =
                     Append(@, [from |-> filePath,
                                to |-> resolveImportPath(e.source, filePath),
                                symbols |-> [k \in 1..Len(e.specifiers) |->
                                               e.specifiers[k].name],
                                importType |-> importTypeOf(e.specifiers, "named"),
                                lineNumber |-> e.line,
                                statement |-> Statement(lines, e.line)])]]
  ELSE IF e.type = "ExportNamedDeclaration"
    THEN [raised |-> FALSE,
          rel |-> [rel EXCEPT !.exports =
                     @ \o [k \in 1..Len(e.names) |->
                             [from |-> filePath, symbol |-> e.names[k],
                              exportType |-> "named", lineNumber |-> e.line,
                              statement |-> Statement(lines, e.line)]]]]
  ELSE IF e.type = "ExportDefaultDeclaration"
    THEN [raised |-> FALSE,
          rel |-> [rel EXCEPT !.exports =
                     Append(@, [from |-> filePath,
                                symbol |-> IF e.name = "" THEN "default" ELSE e.name,
                                exportType |-> "default", lineNumber |-> e.line,
                                statement |-> Statement(lines, e.line)])]]
  ELSE IF e.type = "ClassDeclaration"
    THEN [raised |-> FALSE,
          rel |-> [rel EXCEPT !.classInheritance =
                     @ \o (IF e.superClass # "" /\ e.id # ""
                             THEN <<[from |-> e.id, to |-> e.superClass,
                                     type |-> "extends", lineNumber |-> e.line]>>
                             ELSE <<>>)
                       \o (IF e.id # ""
                             THEN [k \in 1..Len(e.implements) |->
                                     [from |-> e.id, to |-> e.implements[k],
                                      type |-> "implements", lineNumber |-> e.line]]
                             ELSE <<>>)]]
  ELSE IF e.type = "CallExpression" /\ e.functionName # ""
    THEN LET context == findContainingFunction(e, isMethodDefinitionThrows)
         IN  IF context.raised THEN [raised |-> TRUE, rel |-> rel]
             ELSE [raised |-> FALSE,
                   rel |-> [rel EXCEPT !.functionCalls =
                              Append(@, [from |-> filePath, to |-> e.functionName,
                                         object |-> e.objectName,
                                         lineNumber |-> e.line,
                                         callType |-> "direct",
                                         context |-> context.name])]]
  ELSE [raised |-> FALSE, rel |-> rel]

\* traverse(ast, visitor) over the nodes in the order Babel visits them; a
\* throw of the visitor ends the traversal
RECURSIVE visitAll(_, _, _, _, _)
visitAll(v, events, lines, filePath, isMethodDefinitionThrows) ==
  IF events = <<>> \/ v.raised THEN v
  ELSE visitAll(visit(v.rel, Head(events), lines, filePath,
                      isMethodDefinitionThrows),
                Tail(events), lines, filePath, isMethodDefinitionThrows)

\* CodeAnalyzer.extractJavaScriptRelationships: its catch keeps what the
\* visitor pushed before a throw (throws: t.isMethodDefinition is missing)
extractJavaScriptRelationships(lines, tree, filePath, relationships, throws) ==
  IF tree.syntaxError THEN relationships
  ELSE visitAll([raised |-> FALSE, rel |-> relationships], tree.visits, lines,
                filePath, throws).rel

\* CodeAnalyzer.findPythonFunction: the name of the nearest def at or above
\* the line
findPythonFunction(lines, currentLine) ==
  LET defs == {j \in 1..currentLine : lines[j].funcMatch # <<>>}
  IN  IF defs = {} THEN "global"
      ELSE lines[CHOOSE j \in defs : \A k \in defs : k <= j].funcMatch

\* the loop body of extractPythonRelationships for line i
pythonLine(rel, lines, i, filePath) ==
  LET line == lines[i]
      modules == IF line.importMatch = <<>> THEN <<>>
                 ELSE SplitComma(line.importMatch)
      parents == IF line.classMatch = <<>> THEN <<>>
                 ELSE SplitComma(line.classMatch[2])
  IN  [rel EXCEPT
         !.imports =
            @ \o [k \in 1..Len(modules) |->
                    [from |-> filePath, to |-> modules[k],
                     symbols |-> <<modules[k]>>, importType |-> "named",
                     lineNumber |-> i, statement |-> line.text]]
              \o (IF line.fromImportMatch = <<>> THEN <<>>
                  ELSE <<[from |-> filePath, to |-> line.fromImportMatch[1],
                          symbols |-> SplitComma(line.fromImportMatch[2]),
                          importType |-> "named", lineNumber |-> i,
                          statement |-> line.text]>>),
         !.classInheritance =
            @ \o [k \in 1..Len(parents) |->
                    [from |-> line.classMatch[1], to |-> parents[k],
                     type |-> "extends", lineNumber |-> i]],
         !.functionCalls =
            @ \o [k \in 1..Len(line.callMatches) |->
                    [from |-> filePath, to |-> line.callMatches[k][2],
                     object |-> line.callMatches[k][1], lineNumber |-> i,
                     callType |-> "method",
                     context |-> findPythonFunction(lines, i)]]]

\* CodeAnalyzer.extractPythonRelationships, from line i on
RECURSIVE extractPythonRelationships(_, _, _, _)
extractPythonRelationships(lines, i, filePath, relationships) ==
  IF i > Len(lines) THEN relationships
  ELSE extractPythonRelationships(lines, i + 1, filePath,
                                  pythonLine(relationships, lines, i, filePath))

\* the loop body of extractGenericRelationships for line i
genericLine(rel, lines, i, filePath) ==
  LET line == lines[i]
  IN  [rel EXCEPT
         !.dependencies =
            @ \o [k \in 1..Len(line.dependencyMatches) |->
                    [from |-> filePath, to |-> line.dependencyMatches[k],
                     dependencyType |-> "builtin", usage |-> <<"include">>]],
         !.classInheritance =
            @ \o [k \in 1..Len(line.inheritanceMatches) |->
                    [from |-> line.inheritanceMatches[k][1],
                     to |-> line.inheritanceMatches[k][2],
                     type |-> "extends", lineNumber |-> i]]]

\* CodeAnalyzer.extractGenericRelationships, from line i on
RECURSIVE extractGenericRelationships(_, _, _, _)
extractGenericRelationships(lines, i, filePath, relationships) ==
  IF i > Len(lines) THEN relationships
  ELSE extractGenericRelationships(lines, i + 1, filePath,
                                   genericLine(relationships, lines, i, filePath))

\* CodeAnalyzer.extractRelationships on the text of a file: the branch is
\* chosen by the extension, and nothing is thrown
extractCodeRelationships(lines, tree, filePath, extension, relationships, throws) ==
  IF extension \in BabelExtensions
    THEN extractJavaScriptRelationships(lines, tree, filePath, relationships,
                                        throws)
  ELSE IF extension = <<".", "p", "y">>
    THEN extractPythonRelationships(lines, 1, filePath, relationships)
  ELSE extractGenericRelationships(lines, 1, filePath, relationships)

\* a line of a file: its trimmed text and what the regular expressions of
\* the Python and generic branches match on it (<<>> is no match):
\*   importMatch         /^import\s+(.+)/
\*   fromImportMatch     /^from\s+([^\s]+)\s+import\s+(.+)/
\*   classMatch          /^class\s+(\w+)\s*\(\s*([^)]+)\s*\):/
\*   callMatches         /(\w+)\.(\w+)\(/g
\*   funcMatch           /^def\s+(\w+)/
\*   dependencyMatches   the #include, import ...; and using ...; patterns
\*   inheritanceMatches  the `: public` and `extends` patterns
NoMatches ==
  [text |-> <<>>, importMatch |-> <<>>, fromImportMatch |-> <<>>,
   classMatch |-> <<>>, callMatches |-> <<>>, funcMatch |-> <<>>,
   dependencyMatches |-> <<>>, inheritanceMatches |-> <<>>]

RelationLines ==
  {[NoMatches EXCEPT !.text = <<"i", "m", "p", "o", "r", "t", " ", "m", ",", " ", "n">>, !.importMatch = <<"m", ",", " ", "n">>],
   [NoMatches EXCEPT !.text = <<"f", "r", "o", "m", " ", "m", " ", "i", "m", "p", "o", "r", "t", " ", "s", ",", "t">>,
                     !.fromImportMatch = <<<<"m">>, <<"s", ",", "t">>>>],
   [NoMatches EXCEPT !.text = <<"c", "l", "a", "s", "s", " ", "C", "(", "B", ",", " ", "D", ")", ":">>,
                     !.classMatch = <<<<"C">>, <<"B", ",", " ", "D">>>>],
   [NoMatches EXCEPT !.text = <<"d", "e", "f", " ", "g", "(", ")", ":", " ", "o", ".", "f", "(", "p", ".", "q", "(", ")", ")">>,
                     !.funcMatch = <<"g">>,
                     !.callMatches = <<<<<<"o">>, <<"f">>>>, <<<<"p">>, <<"q">>>>>>],
   [NoMatches EXCEPT !.text = <<"o", ".", "f", "(", "x", ")">>,
                     !.callMatches = <<<<<<"o">>, <<"f">>>>>>],
   [NoMatches EXCEPT !.text = <<"#", "i", "n", "c", "l", "u", "d", "e", " ", "<", "h", ">">>,
                     !.dependencyMatches = <<<<"h">>>>],
   [NoMatches EXCEPT !.text = <<"c", "l", "a", "s", "s", " ", "C", " ", "e", "x", "t", "e", "n", "d", "s", " ", "D">>,
                     !.inheritanceMatches = <<<<<<"C">>, <<"D">>>>>>]}

RelationContents == {q \in SeqsUpTo(RelationLines, MaxLines) : q # <<>>}

\* what parse and the two traversals give for a file: a syntax error, or the
\* enter and exit events the structural traversal sees (nodes) and the nodes
\* the relationship visitor is called on (visits)
SyntaxError == [syntaxError |-> TRUE, nodes |-> <<>>, visits |-> <<>>]

RelationTrees ==
  {SyntaxError,
   [syntaxError |-> FALSE,
    nodes |-> <<"Program", "ImportDeclaration", "exit", "exit">>,
    visits |->
      <<[type |-> "ImportDeclaration", source |-> <<".", "/", "m">>, line |-> 1,
         specifiers |-> <<[kind |-> "default", name |-> "m"],
                          [kind |-> "named", name |-> "n"]>>]>>],
   [syntaxError |-> FALSE,
    nodes |-> <<"Program", "ClassDeclaration", "exit", "FunctionDeclaration",
                "CallExpression", "exit", "exit", "exit">>,
    visits |->
      <<[type |-> "ExportNamedDeclaration", names |-> <<"f", "g">>, line |-> 1],
        [type |-> "ClassDeclaration", id |-> "C", superClass |-> "B",
         implements |-> <<"I">>, line |-> 1],
        [type |-> "CallExpression", functionName |-> "f", objectName |-> "o",
         parentFunction |-> "g", line |-> 2],
        [type |-> "CallExpression", functionName |-> "h", objectName |-> "",
         parentFunction |-> "", line |-> 2],
        [type |-> "ExportDefaultDeclaration", name |-> "", line |-> 3]>>]}

\* the files the extraction is run on, with what the build and the parser
\* make of them
RelationInputs ==
  [filePath : {FileA}, lines : {q \in RelationContents : Len(q) = 1},
   tree : RelationTrees, constAssignThrows : BOOLEAN,
   isMethodDefinitionThrows : BOOLEAN]
  \cup
  [filePath : {FileB, FileC}, lines : RelationContents,
   tree : {SyntaxError}, constAssignThrows : BOOLEAN,
   isMethodDefinitionThrows : {FALSE}]

\* what analyzeFile and extractRelationships give for the file at a reading
\* of the clock
Extraction(w, now) ==
  [op |-> "extractRelationships", raised |-> FALSE,
   relationships |->
     extractCodeRelationships(w.lines, w.tree, w.filePath, ExtName(w.filePath),
                              newRelationships(w.filePath, now),
                              w.isMethodDefinitionThrows),
   structuralFeatures |->
     analyzeFileStructure(
       extractStructuralFeatures(
         [k \in 1..Len(w.lines) |-> w.lines[k].text], ExtName(w.filePath),
         IF w.tree.syntaxError THEN "SyntaxError" ELSE w.tree.nodes,
         w.constAssignThrows))]

\* the analyzer alone: a file whose relationships and structural features
\* are extracted, and extracted again
InitRelations ==
  /\ cacheEnabled = TRUE
  /\ disk = [f \in DiskFiles |-> "v1"]
  /\ cache = [p \in Paths |-> NoRep]
  /\ graphReps = [p \in Paths |-> NoRep]
  /\ graphEdges = {}
  /\ stages = <<>>
  /\ pc = "relations"
  /\ work \in RelationInputs
  /\ idx = 0
  /\ acc = NoAcc
  /\ result = NoResult
  /\ calls = 0

\* one run of the extraction on the file; the result of the run before is
\* kept aside, and the clock does not run backwards
ExtractRelationships(now) ==
  /\ pc = "relations"
  /\ calls < 2
  /\ result # NoResult => result.relationships.lastAnalyzed <= now
  /\ calls' = calls + 1
  /\ acc' = result
  /\ result' = Extraction(work, now)
  /\ UNCHANGED <<cacheEnabled, disk, cache, graphReps, graphEdges, stages,
                 pc, work, idx>>

NextRelations == \E now \in 0..MaxCalls : ExtractRelationships(now)

SpecRelations == InitRelations /\ [][NextRelations]_vars

----------------------------------------------------------------------------
(* Bias detector: TextualBiasDetector on a representation *)

\* longest identifier or variable list, and largest structural metric
MaxNames == 2
MaxMetric == 2

\* a variant whose masked copy loses the structure with the text
maskTextualFeatures_StructureToo(code) ==
  [code EXCEPT
     !.textualFeatures =
        [docstrings |-> <<>>, comments |-> <<>>,
         identifierNames |-> [i \in 1..Len(code.textualFeatures.identifierNames)
                                |-> "masked_id"],
         variableNames |-> [i \in 1..Len(code.textualFeatures.variableNames)
                              |-> "var_x"]],
     !.structuralFeatures =
        [complexity |-> 1, nestingDepth |-> 0, functionCount |-> 0,
         classCount |-> 0]]

\* TextualBiasDetector.maskTextualFeatures: {...code, textualFeatures: ...}
maskTextualFeatures(code) ==
  [code EXCEPT
     !.textualFeatures =
        [docstrings |-> <<>>, comments |-> <<>>,
         identifierNames |-> [i \in 1..Len(code.textualFeatures.identifierNames)
                                |-> "masked_id"],
         variableNames |-> [i \in 1..Len(code.textualFeatures.variableNames)
                              |-> "var_x"]]]

\* TextualBiasDetector.detectBias on a representation with its features: the
\* masked copy and the score, in thousandths
detectBiasMasked(code, maskedResults) ==
  [op |-> "detectBias", raised |-> FALSE, masked |-> maskedResults,
   score |-> calculateBiasScore(code.structuralFeatures,
                                maskedResults.structuralFeatures)]

\* the representations the detector is given
BiasInputs ==
  [filePath : {FileA}, content : {"v1"},
   textualFeatures :
     [docstrings : SeqsUpTo({"doc"}, 1), comments : SeqsUpTo({"note"}, 1),
      identifierNames : SeqsUpTo({"f", "g"}, MaxNames),
      variableNames : SeqsUpTo({"v"}, MaxNames)],
   structuralFeatures :
     [complexity : 1..(MaxMetric + 1), nestingDepth : 0..MaxMetric,
      functionCount : 0..MaxMetric, classCount : 0..MaxMetric]]

\* the detector alone: a representation to score
InitBias ==
  /\ cacheEnabled = TRUE
  /\ disk = [f \in DiskFiles |-> "v1"]
  /\ cache = [p \in Paths |-> NoRep]
  /\ graphReps = [p \in Paths |-> NoRep]
  /\ graphEdges = {}
  /\ stages = <<>>
  /\ pc = "bias"
  /\ work \in BiasInputs
  /\ idx = 0
  /\ acc = NoAcc
  /\ result = NoResult
  /\ calls = 0

\* await biasDetector.detectBias(code)
DetectBias ==
  /\ pc = "bias"
  /\ result = NoResult
  /\ result' = detectBiasMasked(work, maskTextualFeatures(work))
  /\ UNCHANGED <<cacheEnabled, disk, cache, graphReps, graphEdges, stages,
                 pc, work, idx, acc, calls>>

NextBias == DetectBias

SpecBias == InitBias /\ [][NextBias]_vars

----------------------------------------------------------------------------
(* Reranker: SACLReranker.combineScores; similarities and bias in tenths *)

\* a variant in which bias raises the weight of the textual similarity
textualWeight_RaisedByBias(biasScore) == 20 + biasScore

\* textualWeight = 0.2 * (1.0 - biasScore * 0.5), in hundredths
textualWeight(biasScore) == 20 - biasScore

\* semanticWeight and functionalWeight, in hundredths
semanticWeight == 50
functionalWeight == 30

\* normalizedWeights, in hundredths
normalizedWeights(biasScore) ==
  textualWeight(biasScore) + semanticWeight + functionalWeight

\* a variant that leaves the weighted sum undivided by the sum of the weights
combineScores_Unnormalized(textualSim, semanticSim, functionalSim, biasScore) ==
  [num |-> textualSim * textualWeight(biasScore)
             + semanticSim * semanticWeight
             + functionalSim * functionalWeight,
   den |-> 100]

\* SACLReranker.combineScores: the exact quotient, num / den tenths
combineScores(textualSim, semanticSim, functionalSim, biasScore) ==
  [num |-> textualSim * textualWeight(biasScore)
             + semanticSim * semanticWeight
             + functionalSim * functionalWeight,
   den |-> normalizedWeights(biasScore)]

\* the similarities and bias scores of the model, in tenths
Tenths == 0..10
Sims == {0, 3, 5, 9, 10}

\* three similarities and the two bias scores the weights are compared at
CombineInputs ==
  [textualSim : Sims, semanticSim : Sims, functionalSim : Sims,
   b1 : Tenths, b2 : Tenths]

\* combineScores alone
InitCombine ==
  /\ cacheEnabled = TRUE
  /\ disk = [f \in DiskFiles |-> "v1"]
  /\ cache = [p \in Paths |-> NoRep]
  /\ graphReps = [p \in Paths |-> NoRep]
  /\ graphEdges = {}
  /\ stages = <<>>
  /\ pc = "combine"
  /\ work \in CombineInputs
  /\ idx = 0
  /\ acc = NoAcc
  /\ result = NoResult
  /\ calls = 0

\* combineScores is called with the same similarities at each of the two
\* bias scores; the weights it works with are kept with its results
CombineScores ==
  /\ pc = "combine"
  /\ result = NoResult
  /\ result' =
       [op |-> "combineScores", raised |-> FALSE,
        textualWeight1 |-> textualWeight(work.b1),
        normalizedWeights1 |-> normalizedWeights(work.b1),
        score1 |-> combineScores(work.textualSim, work.semanticSim,
                                 work.functionalSim, work.b1),
        textualWeight2 |-> textualWeight(work.b2),
        normalizedWeights2 |-> normalizedWeights(work.b2),
        score2 |-> combineScores(work.textualSim, work.semanticSim,
                                 work.functionalSim, work.b2)]
  /\ UNCHANGED <<cacheEnabled, disk, cache, graphReps, graphEdges, stages,
                 pc, work, idx, acc, calls>>

NextCombine == CombineScores

SpecCombine == InitCombine /\ [][NextCombine]_vars

----------------------------------------------------------------------------
(* Reranker: SACLReranker.rerank and rerankWithContext *)

\* longest list of initial results
MaxCandidates == 3

\* a < b for two exact quotients with positive denominators
ScoreLess(a, b) == a.num * b.den < b.num * a.den

\* the RetrievalResult of one initial result; the three similarities are what
\* the scorers give for it and the query
scored(r) ==
  [codeSnippet |-> r, originalScore |-> r.textualSim,
   semanticScore |-> r.semanticSim,
   biasAdjustedScore |-> combineScores(r.textualSim, r.semanticSim,
                                       r.functionalSim, r.biasScore)]

\* Array.prototype.sort((a, b) => b.biasAdjustedScore - a.biasAdjustedScore),
\* which is stable: x goes behind the results that are not below it
RECURSIVE insertByScore(_, _)
insertByScore(sorted, x) ==
  IF sorted = <<>> THEN <<x>>
  ELSE IF ScoreLess(Head(sorted).biasAdjustedScore, x.biasAdjustedScore)
    THEN <<x>> \o sorted
  ELSE <<Head(sorted)>> \o insertByScore(Tail(sorted), x)

RECURSIVE sortByScore(_, _)
sortByScore(sorted, results) ==
  IF results = <<>> THEN sorted
  ELSE sortByScore(insertByScore(sorted, Head(results)), Tail(results))

\* Array.prototype.slice(0, topK): a negative topK counts from the end
Slice(s, topK) ==
  IF topK >= 0 THEN SubSeq(s, 1, Min(topK, Len(s)))
  ELSE IF Len(s) + topK > 0 THEN SubSeq(s, 1, Len(s) + topK)
  ELSE <<>>

\* a variant that truncates the list before sorting it
rerank_TruncateFirst(initialResults, topK) ==
  sortByScore(<<>>, Slice([i \in 1..Len(initialResults) |->
                             scored(initialResults[i])], topK))

\* SACLReranker.rerank
rerank(initialResults, topK) ==
  Slice(sortByScore(<<>>, [i \in 1..Len(initialResults) |->
                             scored(initialResults[i])]),
        topK)

\* no component: what `relatedComponents[0]?.relationshipDescription ||
\* 'none'` names for an empty list
NoComponent ==
  [filePath |-> <<>>, relationshipType |-> "none", relevanceScore |-> 0,
   distance |-> 0]

\* SACLReranker.buildContextSummary: the counts the summary gives and the
\* component whose description it gives as the most relevant, the first one
buildContextSummary(code, relatedComponents) ==
  IF Len(relatedComponents) = 0
    THEN [available |-> TRUE, standalone |-> TRUE, related |-> 0,
          imports |-> 0, calls |-> 0, inheritance |-> 0,
          mostRelevant |-> NoComponent]
    ELSE [available |-> TRUE, standalone |-> FALSE,
          related |-> Len(relatedComponents),
          imports |-> Len(SelectSeq(relatedComponents,
                        LAMBDA c : c.relationshipType = "imports")),
          calls |-> Len(SelectSeq(relatedComponents,
                      LAMBDA c : c.relationshipType = "calls")),
          inheritance |-> Len(SelectSeq(relatedComponents,
                            LAMBDA c : c.relationshipType
                                         \in {"extends", "implements"})),
          mostRelevant |-> relatedComponents[1]]

\* sort((a, b) => b.relevanceScore - a.relevanceScore), which is stable
RECURSIVE insertByRelevance(_, _)
insertByRelevance(sorted, x) ==
  IF sorted = <<>> THEN <<x>>
  ELSE IF Head(sorted).relevanceScore < x.relevanceScore
    THEN <<x>> \o sorted
  ELSE <<Head(sorted)>> \o insertByRelevance(Tail(sorted), x)

RECURSIVE sortByRelevance(_, _)
sortByRelevance(sorted, components) ==
  IF components = <<>> THEN sorted
  ELSE sortByRelevance(insertByRelevance(sorted, Head(components)),
                       Tail(components))

\* the file paths of a list of components
FilePaths(components) ==
  [i \in 1..Len(components) |-> components[i].filePath]

\* SACLReranker.buildDependencyChain
buildDependencyChain(filePath, relatedComponents) ==
  <<filePath>>
    \o FilePaths(Slice(sortByRelevance(<<>>,
                         SelectSeq(relatedComponents,
                           LAMBDA c : c.relationshipType
                                        \in {"imports", "depends_on"})), 3))

\* SACLReranker.generateContextExplanation: the summary is built from the
\* first three components, the chain from all of them
generateContextExplanation(code, relatedComponents) ==
  [primaryFile |-> code.filePath,
   contextSummary |-> buildContextSummary(code, Slice(relatedComponents, 3)),
   dependencyChain |-> buildDependencyChain(code.filePath, relatedComponents),
   suggestedFiles |-> FilePaths(Slice(relatedComponents, 3))]

\* SACLReranker.convertToEnhanced: 'No relationship context available'
convertToEnhanced(r) ==
  [codeSnippet |-> r.codeSnippet, originalScore |-> r.originalScore,
   semanticScore |-> r.semanticScore,
   biasAdjustedScore |-> r.biasAdjustedScore, relatedComponents |-> <<>>,
   contextExplanation |->
     [primaryFile |-> r.codeSnippet.filePath,
      contextSummary |-> [available |-> FALSE, standalone |-> FALSE,
                          related |-> 0, imports |-> 0, calls |-> 0,
                          inheritance |-> 0, mostRelevant |-> NoComponent],
      dependencyChain |-> <<>>, suggestedFiles |-> <<>>],
   dependencyChain |-> <<>>]

\* the EnhancedRetrievalResult rerankWithContext builds from an initial
\* result and its related components
enhancedWith(r, relatedComponents) ==
  [codeSnippet |-> r, originalScore |-> r.textualSim,
   semanticScore |-> r.semanticSim,
   biasAdjustedScore |-> combineScores(r.textualSim, r.semanticSim,
                                       r.functionalSim, r.biasScore),
   relatedComponents |-> relatedComponents,
   contextExplanation |-> generateContextExplanation(r, relatedComponents),
   dependencyChain |-> buildDependencyChain(r.filePath, relatedComponents)]

\* the related components are fetched with { maxDepth: 2 }
enhanced(r) == enhancedWith(r, getRelatedComponents(r.filePath, 2))

convertAll(basicResults) ==
  [i \in 1..Len(basicResults) |-> convertToEnhanced(basicResults[i])]

\* SACLReranker.rerankWithContext
rerankWithContext(initialResults, topK, graphitiClient) ==
  IF ~graphitiClient THEN convertAll(rerank(initialResults, topK))
  ELSE Slice(sortByScore(<<>>, [i \in 1..Len(initialResults) |->
                                  enhanced(initialResults[i])]),
             topK)

\* '/w/ServiceController.ts'
ServiceControllerFile ==
  <<"/", "w", "/", "S", "e", "r", "v", "i", "c", "e",
    "C", "o", "n", "t", "r", "o", "l", "l", "e", "r", ".", "t", "s">>

\* the initial results: representations with a bias score and the
\* similarities the scorers give them for the query, in tenths
Candidates ==
  [filePath : {FileA}, biasScore : {0, 10}, textualSim : {0, 10},
   semanticSim : {0, 10}, functionalSim : {5}]
    \cup [filePath : {ServiceControllerFile}, biasScore : {0},
          textualSim : {0}, semanticSim : {0}, functionalSim : {5}]

RerankInputs ==
  [initialResults : SeqsUpTo(Candidates, MaxCandidates),
   topK : (0 - 1)..(MaxCandidates + 1),
   graphitiClient : BOOLEAN]

\* the reranker alone: a list of initial results to rank
InitRerank ==
  /\ cacheEnabled = TRUE
  /\ disk = [f \in DiskFiles |-> "v1"]
  /\ cache = [p \in Paths |-> NoRep]
  /\ graphReps = [p \in Paths |-> NoRep]
  /\ graphEdges = {}
  /\ stages = <<>>
  /\ pc = "reranker"
  /\ work \in RerankInputs
  /\ idx = 0
  /\ acc = NoAcc
  /\ result = NoResult
  /\ calls = 0

\* await reranker.rerank(initialResults, query, topK)
Rerank ==
  /\ pc = "reranker"
  /\ result = NoResult
  /\ result' = [op |-> "rerank", raised |-> FALSE,
                results |-> rerank(work.initialResults, work.topK)]
  /\ UNCHANGED <<cacheEnabled, disk, cache, graphReps, graphEdges, stages,
                 pc, work, idx, acc, calls>>

\* await reranker.rerankWithContext(initialResults, query, topK)
RerankWithContext ==
  /\ pc = "reranker"
  /\ result = NoResult
  /\ result' = [op |-> "rerankWithContext", raised |-> FALSE,
                results |-> rerankWithContext(work.initialResults, work.topK,
                                              work.graphitiClient)]
  /\ UNCHANGED <<cacheEnabled, disk, cache, graphReps, graphEdges, stages,
                 pc, work, idx, acc, calls>>

NextRerank == Rerank \/ RerankWithContext

SpecRerank == InitRerank /\ [][NextRerank]_vars

----------------------------------------------------------------------------
(* Graph Store traversal: GraphitiClient.traverseRelationships *)

\* largest traversal depth asked for
MaxDepth == 2

\* '/w/Service.ts' and '/w/Controller.ts'
ServiceFile == <<"/", "w", "/", "S", "e", "r", "v", "i", "c", "e", ".", "t", "s">>
ControllerFile == <<"/", "w", "/", "C", "o", "n", "t", "r", "o", "l", "l", "e", "r", ".", "t", "s">>

\* Math.max(...distances): -Infinity for no distance at all
MaxDistance(components) ==
  IF components = <<>> THEN "-Infinity"
  ELSE LET distances == {components[i].distance : i \in 1..Len(components)}
       IN  CHOOSE m \in distances : \A n \in distances : n <= m

\* the GraphTraversalResult traverseRelationships builds from the related
\* components
traversalResult(startFile, maxDepth, relatedComponents) ==
  [op |-> "traverseRelationships", raised |-> FALSE,
   startNode |-> startFile,
   relatedComponents |-> relatedComponents,
   relationshipGraph |->
     [nodes |-> <<[id |-> startFile, type |-> "file"]>>
                  \o [i \in 1..Len(relatedComponents) |->
                        [id |-> relatedComponents[i].filePath, type |-> "file"]],
      edges |-> [i \in 1..Len(relatedComponents) |->
                   [from |-> startFile, to |-> relatedComponents[i].filePath,
                    type |-> relatedComponents[i].relationshipType,
                    weight |-> relatedComponents[i].relevanceScore]],
      primaryNode |-> startFile,
      maxDepth |-> maxDepth],
   traversalStats |->
     [nodesVisited |-> Len(relatedComponents) + 1,
      edgesTraversed |-> Len(relatedComponents),
      maxDepthReached |-> MaxDistance(relatedComponents)]]

\* GraphitiClient.traverseRelationships
traverseRelationships(startFile, relationshipTypes, maxDepth) ==
  traversalResult(startFile, maxDepth,
    createMockRelatedComponents(startFile,
      [maxDepth |-> maxDepth, relationshipTypes |-> relationshipTypes,
       minRelevanceScore |-> defaultMinRelevanceScore]))

\* DEFAULT_RELATIONSHIP_WEIGHTS, in hundredths
typeWeight ==
  [imports |-> 100, exports |-> 80, calls |-> 90, extends |-> 95,
   implements |-> 90, uses |-> 70, depends_on |-> 60]

\* the chain /w/a.js -> /w/b.py -> /w/c.c -> /w/Service.ts of imports, the
\* type of weight 1.0
Chain ==
  {Edge(FileA, FileB, "imports"), Edge(FileB, FileC, "imports"),
   Edge(FileC, ServiceFile, "imports")}

\* the relationships the store holds when a traversal runs
TraverseGraphs == {{}, Chain}

\* the calls of the traversal: a start file, the relationship types and the
\* depth
TraverseInputs ==
  [startFile : {FileA, Outside, Escape, ServiceFile, ControllerFile},
   relationshipTypes : SUBSET {"imports", "calls", "extends"},
   maxDepth : 0..MaxDepth]

\* the Graph Store client alone: a graph stored, a traversal to run
InitTraverse ==
  /\ cacheEnabled = TRUE
  /\ disk = [f \in DiskFiles |-> "v1"]
  /\ cache = [p \in Paths |-> NoRep]
  /\ graphReps = [p \in Paths |-> NoRep]
  /\ graphEdges \in TraverseGraphs
  /\ stages = <<>>
  /\ pc = "traverse"
  /\ work \in TraverseInputs
  /\ idx = 0
  /\ acc = NoAcc
  /\ result = NoResult
  /\ calls = 0

\* await graphitiClient.traverseRelationships(startFile, types, maxDepth)
TraverseRelationships ==
  /\ pc = "traverse"
  /\ result = NoResult
  /\ result' = traverseRelationships(work.startFile, work.relationshipTypes,
                                     work.maxDepth)
  /\ UNCHANGED <<cacheEnabled, disk, cache, graphReps, graphEdges, stages,
                 pc, work, idx, acc, calls>>

\* await graphitiClient.getRelatedComponents(startFile, { maxDepth })
GetRelatedComponents ==
  /\ pc = "traverse"
  /\ result = NoResult
  /\ result' = [op |-> "getRelatedComponents", raised |-> FALSE,
                startNode |-> work.startFile,
                relatedComponents |->
                  getRelatedComponents(work.startFile, work.maxDepth)]
  /\ UNCHANGED <<cacheEnabled, disk, cache, graphReps, graphEdges, stages,
                 pc, work, idx, acc, calls>>

NextTraverse == TraverseRelationships \/ GetRelatedComponents

SpecTraverse == InitTraverse /\ [][NextTraverse]_vars

----------------------------------------------------------------------------
(* Orchestrator queries: SACLProcessor.queryCode and queryCodeWithContext *)

\* largest maxResults a caller passes
MaxResults == 3

\* config.maxResults: SACL_MAX_RESULTS || '10'
configMaxResults == 10

\* const limit = maxResults || this.config.maxResults: an absent maxResults
\* and the falsy 0 both give the configured value
queryLimit(given, maxResults) ==
  IF ~given \/ maxResults = 0 THEN configMaxResults ELSE maxResults

\* the initial results with the textual similarity the scorers give each of
\* them for the query; bias in tenths
withSimilarities(initialResults, sims) ==
  [i \in 1..Len(initialResults) |->
     [filePath |-> initialResults[i].filePath,
      biasScore |-> initialResults[i].biasScore \div 100,
      textualSim |-> sims[i], semanticSim |-> 5, functionalSim |-> 5]]

\* queryCode once the search has answered
queryCodeRanked(initialResults, limit, sims) ==
  IF Len(initialResults) = 0
    THEN [op |-> "queryCode", raised |-> FALSE, limit |-> limit, searched |-> 0,
          reranked |-> FALSE, results |-> <<>>]
    ELSE [op |-> "queryCode", raised |-> FALSE, limit |-> limit,
          searched |-> Len(initialResults), reranked |-> TRUE,
          results |-> rerank(withSimilarities(initialResults, sims), limit)]

\* SACLProcessor.queryCode
queryCodeLimited(query, limit, sims) ==
  queryCodeRanked(searchCode(query, limit * 2), limit, sims)

queryCode(query, given, maxResults, sims) ==
  queryCodeLimited(query, queryLimit(given, maxResults), sims)

\* queryCodeWithContext once the search has answered; the reranker of the
\* orchestrator holds the Graph Store client
queryCodeWithContextRanked(initialResults, limit, sims) ==
  IF Len(initialResults) = 0
    THEN [op |-> "queryCodeWithContext", raised |-> FALSE, limit |-> limit,
          searched |-> 0, reranked |-> FALSE, results |-> <<>>]
    ELSE [op |-> "queryCodeWithContext", raised |-> FALSE, limit |-> limit,
          searched |-> Len(initialResults), reranked |-> TRUE,
          results |-> rerankWithContext(withSimilarities(initialResults, sims),
                                        limit, TRUE)]

queryCodeWithContextLimited(query, limit, sims) ==
  queryCodeWithContextRanked(searchCode(query, limit * 2), limit, sims)

\* SACLProcessor.queryCodeWithContext
queryCodeWithContext(query, given, maxResults, sims) ==
  queryCodeWithContextLimited(query, queryLimit(given, maxResults), sims)

\* the queries: maxResults absent or given, and the textual similarity of
\* each of the five results the search can give
QueryInputs ==
  {w \in [given : BOOLEAN, maxResults : (0 - 1)..MaxResults,
          sims : [1..5 -> {0, 10}]] :
     ~w.given => w.maxResults = 0}

\* the orchestrator alone: a query to answer
InitQuery ==
  /\ cacheEnabled = TRUE
  /\ disk = [f \in DiskFiles |-> "v1"]
  /\ cache = [p \in Paths |-> NoRep]
  /\ graphReps = [p \in Paths |-> NoRep]
  /\ graphEdges = {}
  /\ stages = <<>>
  /\ pc = "query"
  /\ work \in QueryInputs
  /\ idx = 0
  /\ acc = NoAcc
  /\ result = NoResult
  /\ calls = 0

\* await saclProcessor.queryCode(query, maxResults)
QueryCode ==
  /\ pc = "query"
  /\ result = NoResult
  /\ result' = queryCode("q", work.given, work.maxResults, work.sims)
  /\ UNCHANGED <<cacheEnabled, disk, cache, graphReps, graphEdges, stages,
                 pc, work, idx, acc, calls>>

\* await saclProcessor.queryCodeWithContext(query, maxResults)
QueryCodeWithContext ==
  /\ pc = "query"
  /\ result = NoResult
  /\ result' = queryCodeWithContext("q", work.given, work.maxResults, work.sims)
  /\ UNCHANGED <<cacheEnabled, disk, cache, graphReps, graphEdges, stages,
                 pc, work, idx, acc, calls>>

NextQuery == QueryCode \/ QueryCodeWithContext

SpecQuery == InitQuery /\ [][NextQuery]_vars

----------------------------------------------------------------------------
(* Semantic augmenter: the text SemanticEmbedder.embed sends to the oracle *)

\* `${text || 'unknown'}`
OrUnknown(text) == IF text = "" THEN "unknown" ELSE text

\* SemanticEmbedder.createSemanticRepresentation: the structural metrics, the
\* behavior pattern and the functional signature the representation carries
\* when embed is called
createSemanticRepresentation(code) ==
  [structure |-> structuralFeatures(code.content),
   codePatterns |-> OrUnknown(code.semanticFeatures.behaviorPattern),
   functionalSignature |-> OrUnknown(code.semanticFeatures.functionalSignature)]

\* augmentRepresentation with the input of its embed call: embed(code) is
\* awaited before extractSemanticFeatures(code), on the representation
\* augmentRepresentation was given
augmentRepresentationTraced(code, env) ==
  [op |-> "augmentRepresentation", raised |-> FALSE, code |-> code,
   embedInput |-> createSemanticRepresentation(code),
   ret |-> augmentRepresentation(code, env)]

\* the runs of the augmenter: a file analysed at some time, each oracle call
\* failing or not
AugmentInputs ==
  [filePath : DiskFiles, content : {"v1", "v2"}, now : 0..MaxCalls,
   encode : BOOLEAN, embed : BOOLEAN, complete : BOOLEAN]

\* the augmenter alone: a representation processFile is about to augment
InitAugment ==
  /\ cacheEnabled = TRUE
  /\ disk = [f \in DiskFiles |-> "v1"]
  /\ cache = [p \in Paths |-> NoRep]
  /\ graphReps = [p \in Paths |-> NoRep]
  /\ graphEdges = {}
  /\ stages = <<>>
  /\ pc = "augment"
  /\ work \in AugmentInputs
  /\ idx = 0
  /\ acc = NoAcc
  /\ result = NoResult
  /\ calls = 0

\* processFile, steps 2 and 3, on what analyzeFile built from the content
AugmentRepresentation ==
  /\ pc = "augment"
  /\ result = NoResult
  /\ result' =
       augmentRepresentationTraced(
         [RepresentationOf(work.filePath, work.content, work.now)
            EXCEPT !.biasScore =
              detectBias(RepresentationOf(work.filePath, work.content,
                                          work.now))],
         [EnvOk EXCEPT !.encode = work.encode, !.embed = work.embed,
                       !.complete = work.complete])
  /\ UNCHANGED <<cacheEnabled, disk, cache, graphReps, graphEdges, stages,
                 pc, work, idx, acc, calls>>

NextAugment == AugmentRepresentation

SpecAugment == InitAugment /\ [][NextAugment]_vars

----------------------------------------------------------------------------
(* Interleaved callers: updateFile(p, 'modified') and updateFile(p, 'deleted')
   on the same path, each running up to its next await; no lock is taken *)

\* the path both callers update
SharedPath == FileA

\* the processor and the store before the two calls: fresh, or after
\* updateFile(SharedPath, 'created') went through
FreshSt ==
  [cache |-> [p \in Paths |-> NoRep], graphReps |-> [p \in Paths |-> NoRep],
   graphEdges |-> {}, stages |-> <<>>]

StartStates ==
  {FreshSt,
   [updateFile(FreshSt, SharedPath, "created", EnvOk).st EXCEPT !.stages = <<>>]}

\* where each caller stands, and whether the update was issued after the
\* delete
Standing(modified, deleted, lateUpdate) ==
  [modified |-> modified, deleted |-> deleted, lateUpdate |-> lateUpdate]

\* what each caller was returned
Outcomes(modified, deleted) ==
  [op |-> "interleaved", raised |-> FALSE, modified |-> modified,
   deleted |-> deleted]

InitInterleaved ==
  /\ cacheEnabled = TRUE
  /\ disk \in [DiskFiles -> {"v1", "v2"}]
  /\ disk[FileB] = "v1"
  /\ \E st \in StartStates :
       /\ cache = st.cache
       /\ graphReps = st.graphReps
       /\ graphEdges = st.graphEdges
  /\ stages = <<>>
  /\ pc = "interleaved"
  /\ work = Standing("ready", "ready", FALSE)
  /\ idx = 0
  /\ acc = NoAcc
  /\ result = Outcomes("pending", "pending")
  /\ calls = 0

\* updateFile(p, 'modified') is called: the path is validated and
\* processFile awaits analyzeFile, which reads the file
ModifiedAnalyzed(codeRep) ==
  IF codeRep = NoRep
    THEN /\ stages' = Append(stages, [stage |-> "read", path |-> SharedPath,
                                      ok |-> FALSE])
         /\ acc' = NoAcc
         /\ work' = [work EXCEPT !.modified = "returned",
                                 !.lateUpdate = work.deleted # "ready"]
         /\ result' = [result EXCEPT !.modified = "failure"]
    ELSE /\ stages' = stages
         /\ acc' = [op |-> "updateFile", codeRep |-> codeRep]
         /\ work' = [work EXCEPT !.modified = "analyzed",
                                 !.lateUpdate = work.deleted # "ready"]
         /\ result' = result

ModifiedIssue(env) ==
  /\ pc = "interleaved"
  /\ work.modified = "ready"
  /\ validPath[SharedPath]
  /\ ModifiedAnalyzed(analyzeFile(SharedPath, env))
  /\ calls' = calls + 1
  /\ UNCHANGED <<cacheEnabled, disk, cache, graphReps, graphEdges, pc, idx>>

\* processFile goes on after analyzeFile: bias, augmentation and the storing
\* of the relationships
ModifiedProcessed(pf) ==
  /\ Commit(pf.st)
  /\ IF pf.ret = NoRep
       THEN /\ acc' = NoAcc
            /\ work' = [work EXCEPT !.modified = "returned"]
            /\ result' = [result EXCEPT !.modified = "failure"]
       ELSE /\ acc' = [op |-> "updateFile", codeRep |-> pf.ret]
            /\ work' = [work EXCEPT !.modified = "processed"]
            /\ result' = result

ModifiedProcess(env) ==
  /\ pc = "interleaved"
  /\ work.modified = "analyzed"
  /\ ModifiedProcessed(processFileAnalyzed(StRunning, SharedPath, acc.codeRep, env))
  /\ UNCHANGED <<cacheEnabled, disk, pc, idx, calls>>

\* await graphitiClient.storeCodeRepresentation(processed): the Graph Store
\* writes or refuses; a throw ends the call in the catch block
ModifiedStored(sr) ==
  /\ Commit(sr.st)
  /\ IF sr.raised
       THEN /\ acc' = NoAcc
            /\ work' = [work EXCEPT !.modified = "returned"]
            /\ result' = [result EXCEPT !.modified = "failure"]
       ELSE /\ acc' = acc
            /\ work' = [work EXCEPT !.modified = "stored"]
            /\ result' = result

ModifiedStore(env) ==
  /\ pc = "interleaved"
  /\ work.modified = "processed"
  /\ ModifiedStored(storeCodeRepresentation(StRunning, acc.codeRep, env))
  /\ UNCHANGED <<cacheEnabled, disk, pc, idx, calls>>

\* the update resumes after the store: cache.set and return
ModifiedReturn ==
  /\ pc = "interleaved"
  /\ work.modified = "stored"
  /\ Commit(cacheSet(StRunning, SharedPath, acc.codeRep))
  /\ acc' = NoAcc
  /\ work' = [work EXCEPT !.modified = "returned"]
  /\ result' = [result EXCEPT !.modified = "success"]
  /\ UNCHANGED <<cacheEnabled, disk, pc, idx, calls>>

\* updateFile(p, 'deleted') is called: cache.delete, then
\* deleteFileRelationships is awaited
DeleteIssue ==
  /\ pc = "interleaved"
  /\ work.deleted = "ready"
  /\ validPath[SharedPath]
  /\ Commit(cacheDelete(StRunning, SharedPath))
  /\ work' = [work EXCEPT !.deleted = "cacheDeleted"]
  /\ calls' = calls + 1
  /\ UNCHANGED <<cacheEnabled, disk, pc, idx, acc, result>>

\* the Graph Store deletes or refuses
DeleteStored(dl) ==
  /\ Commit(dl.st)
  /\ IF dl.raised
       THEN /\ work' = [work EXCEPT !.deleted = "returned"]
            /\ result' = [result EXCEPT !.deleted = "failure"]
       ELSE /\ work' = [work EXCEPT !.deleted = "storeDeleted"]
            /\ result' = result

DeleteStore(env) ==
  /\ pc = "interleaved"
  /\ work.deleted = "cacheDeleted"
  /\ DeleteStored(deleteFileRelationships(StRunning, SharedPath, env))
  /\ UNCHANGED <<cacheEnabled, disk, pc, idx, acc, calls>>

\* the delete resumes and returns success
DeleteReturn ==
  /\ pc = "interleaved"
  /\ work.deleted = "storeDeleted"
  /\ work' = [work EXCEPT !.deleted = "returned"]
  /\ result' = [result EXCEPT !.deleted = "success"]
  /\ UNCHANGED <<cacheEnabled, disk, cache, graphReps, graphEdges, stages,
                 pc, idx, acc, calls>>

\* what the environment does at the await a step ends in
ReadEnvs == {[EnvOk EXCEPT !.read = b] : b \in BOOLEAN}

ProcessEnvs ==
  {[EnvOk EXCEPT !.encode = b, !.embed = b, !.complete = b, !.relsStored = n] :
     b \in BOOLEAN, n \in 0..MaxRels}

StoreEnvs == {[EnvOk EXCEPT !.storeRep = b] : b \in BOOLEAN}

DeleteEnvs == {[EnvOk EXCEPT !.delete = b] : b \in BOOLEAN}

NextInterleaved ==
  \/ \E env \in ReadEnvs : ModifiedIssue(env)
  \/ \E env \in ProcessEnvs : ModifiedProcess(env)
  \/ \E env \in StoreEnvs : ModifiedStore(env)
  \/ ModifiedReturn
  \/ DeleteIssue
  \/ \E env \in DeleteEnvs : DeleteStore(env)
  \/ DeleteReturn

SpecInterleaved == InitInterleaved /\ [][NextInterleaved]_vars

----------------------------------------------------------------------------
(* Properties *)

\* UnderRoot over the paths of the model, computed once
underRoot == [p \in Paths |-> UnderRoot(p)]

\* the relationships of a sequence, as a set
Range(q) == {q[i] : i \in 1..Len(q)}

\* the files whose pipeline was started, in the order of the stage log
AttemptedFiles ==
  LET reads == SelectSeq(stages, LAMBDA e : e.stage = "read")
  IN  [i \in 1..Len(reads) |-> reads[i].path]

\* a Graph Store write failed during the operation the stage log is of
StorageFailed ==
  \E i \in 1..Len(stages) :
    /\ stages[i].stage \in {"storeRelationships", "storeRepresentation", "delete"}
    /\ ~stages[i].ok

\* a single updateFile has just returned
UpdateFileDone == result.op = "updateFile"

\* C1: an updateFile whose path does not resolve to a location under the
\* repository root returns success = false with the 'outside repository'
\* message.
C1_OutsideIsRejected ==
  (UpdateFileDone /\ ~underRoot[result.filePath])
    => /\ ~result.raised
       /\ ~result.success
       /\ result.message = "outside repository"

\* C2: a step in which updateFile rejects a path by path validation, alone or
\* as an item of a batch, leaves the cache and the Graph Store as they were
\* and runs no pipeline stage.
C2_RejectionMutatesNothing ==
  [][ /\ ( /\ calls' # calls
           /\ result'.op = "updateFile"
           /\ result'.message = "outside repository" )
         => /\ cache' = cache
            /\ graphReps' = graphReps
            /\ graphEdges' = graphEdges
            /\ stages' = <<>>
      /\ ( /\ pc = "updateFiles"
           /\ idx' = idx + 1
           /\ acc'.results[idx].message = "outside repository" )
         => /\ cache' = cache
            /\ graphReps' = graphReps
            /\ graphEdges' = graphEdges
            /\ stages' = stages ]_vars

\* C2's case: a path outside the root is rejected while the cache and the
\* Graph Store hold a file
C2_Witness ==
  /\ UpdateFileDone
  /\ result.filePath = Outside
  /\ result.message = "outside repository"
  /\ cache[FileA] # NoRep
  /\ graphReps[FileA] # NoRep
  /\ graphEdges # {}

\* C3: once updateFile(path, 'deleted') has returned success,
\* getRelatedComponents(path) is empty, search returns no representation of
\* path and the cache has no entry for path.
C3_DeletedIsGone ==
  (UpdateFileDone /\ result.changeType = "deleted" /\ result.success)
    => /\ getRelatedComponents(result.filePath, 3) = <<>>
       /\ \A i \in 1..Len(searchCode("q", MaxLimit)) :
             searchCode("q", MaxLimit)[i].filePath # result.filePath
       /\ cache[result.filePath] = NoRep

\* C4: processRepository never raises; the files whose pipeline was started
\* are, at every point of the scan, the discovered files gone through so far
\* in discovery order, and at its return all the discovered files, whatever
\* failed.
C4_ScanIsolatesFailures ==
  /\ pc = "processRepository" => AttemptedFiles = SubSeq(work, 1, idx - 1)
  /\ result.op = "processRepository"
       => /\ ~result.raised
          /\ AttemptedFiles = result.codeFiles

\* C4's case: the pipeline of the first discovered file failed and the
\* second file was still processed and stored
C4_Witness ==
  /\ result.op = "processRepository"
  /\ result.codeFiles = <<FileA, FileB>>
  /\ \E i \in 1..Len(stages) : stages[i].path = FileA /\ ~stages[i].ok
  /\ graphReps[FileA] = NoRep
  /\ graphReps[FileB] # NoRep

\* C5: updateFiles returns one result per item of the batch, and the i-th
\* result is of the i-th item's path.
C5_ResultsInInputOrder ==
  result.op = "updateFiles"
    => /\ ~result.raised
       /\ Len(result.results) = Len(result.files)
       /\ \A i \in 1..Len(result.files) :
             result.results[i].filePath = result.files[i].filePath

\* C5's case: a batch of two different paths whose first item failed
C5_Witness ==
  /\ result.op = "updateFiles"
  /\ Len(result.files) = 2
  /\ result.files[1].filePath # result.files[2].filePath
  /\ ~result.results[1].success
  /\ result.results[2].success

\* C6: updateFiles returns totalFiles = the batch length, successfulUpdates
\* and failedUpdates = the numbers of results with success true and false,
\* which add up to totalFiles; and the loop goes on to the next item after
\* every item, failed or not.
C6_BatchCounts ==
  /\ [](result.op = "updateFiles"
          => /\ ~result.raised
             /\ result.totalFiles = Len(result.files)
             /\ result.successfulUpdates =
                  Cardinality({i \in 1..Len(result.results) :
                                 result.results[i].success})
             /\ result.failedUpdates =
                  Cardinality({i \in 1..Len(result.results) :
                                 ~result.results[i].success})
             /\ result.successfulUpdates + result.failedUpdates
                  = result.totalFiles)
  /\ [][(pc = "updateFiles" /\ idx <= Len(work))
          => (pc' = "updateFiles" /\ idx' = idx + 1 /\ work' = work)]_vars

\* C6's case: the first item of a batch failed and the second, a delete, was
\* applied
C6_Witness ==
  /\ result.op = "updateFiles"
  /\ result.totalFiles = 2
  /\ result.failedUpdates = 1
  /\ ~result.results[1].success
  /\ result.files[2].changeType = "deleted"
  /\ \E i \in 1..Len(stages) :
       stages[i] = [stage |-> "delete", path |-> result.files[2].filePath,
                    ok |-> TRUE]

\* the content of the file a path names
DiskContent(filePath) == disk[CHOOSE f \in diskFileAt[filePath] : TRUE]

C8_StorageFailurePropagates ==
  (result.op \in {"processFile", "processRepository"} /\ StorageFailed)
    => result.raised

\* C8, as the code has it: a Graph Store failure during processFile is caught
\* and processFile returns no representation; during processRepository it is
\* caught for the file it hits, every discovered file is still gone through
\* and the statistics are returned.
C8_StorageFailureIsCaught ==
  /\ (result.op = "processFile" /\ StorageFailed)
       => /\ ~result.raised
          /\ result.ret = NoRep
  /\ (result.op = "processRepository" /\ StorageFailed)
       => /\ ~result.raised
          /\ AttemptedFiles = result.codeFiles
          /\ result.totalFiles = Len(result.codeFiles)

\* C8's case: the Graph Store failed on the first file of a scan of two
C8_Witness ==
  /\ result.op = "processRepository"
  /\ result.codeFiles = <<FileA, FileB>>
  /\ \E i \in 1..Len(stages) :
       /\ stages[i].path = FileA
       /\ stages[i].stage \in {"storeRelationships", "storeRepresentation"}
       /\ ~stages[i].ok

\* C9: after processFile(path) returned a representation, and after a
\* successful updateFile(path, created|modified), the Graph Store holds the
\* representation of path and the relationships extracted from it.
C9_ProcessedIsStored ==
  /\ (result.op = "processFile" /\ result.ret # NoRep)
       => /\ graphReps[result.filePath] = result.ret
          /\ Range(extractRelationships(result.filePath, result.ret.content))
               \subseteq graphEdges
  /\ (UpdateFileDone /\ result.success
        /\ result.changeType \in {"created", "modified"})
       => /\ graphReps[result.filePath].filePath = result.filePath
          /\ Range(extractRelationships(result.filePath,
                      graphReps[result.filePath].content))
               \subseteq graphEdges

\* C10: after a successful updateFile(path, 'modified') the Graph Store holds
\* the representation of the new content of path, and the stored edges whose
\* source is path are exactly the relationships extracted from that content.
C10_ModifiedSupersedes ==
  (UpdateFileDone /\ result.success /\ result.changeType = "modified")
    => /\ graphReps[result.filePath].content = DiskContent(result.filePath)
       /\ {e \in graphEdges : e.from = result.filePath}
            = Range(extractRelationships(result.filePath,
                       DiskContent(result.filePath)))

\* C11: analyzeFile on a readable file of a supported extension returns a
\* representation (never null, never a raise) whose structural features have
\* complexity >= 1 and nestingDepth, functionCount, classCount >= 0.
C11_ExtractionNeverNull ==
  result.op = "analyzeFile"
    => /\ ~result.raised
       /\ result.structuralFeatures # NoFeatures
       /\ result.structuralFeatures.complexity >= 1
       /\ result.structuralFeatures.nestingDepth >= 0
       /\ result.structuralFeatures.functionCount >= 0
       /\ result.structuralFeatures.classCount >= 0

\* a stage of the given name was run by the operation the stage log is of
StageRun(stage) == \E i \in 1..Len(stages) : stages[i].stage = stage

\* a stage of the given name failed
StageFailed(stage) ==
  \E i \in 1..Len(stages) : stages[i].stage = stage /\ ~stages[i].ok

\* an oracle call of the operation failed
OracleFailed ==
  StageFailed("encode") \/ StageFailed("embed") \/ StageFailed("complete")

\* C12: when any oracle call (Embed or Complete) fails, the pipeline does not
\* raise, goes on to the store stage, and the representation it returns has
\* the placeholder functional signature and behavior pattern.
C12_OracleFailureGivesPlaceholder ==
  (result.op = "processFile" /\ OracleFailed)
    => /\ ~result.raised
       /\ StageRun("storeRelationships")
       /\ result.ret # NoRep
            => /\ result.ret.semanticFeatures.functionalSignature
                    = "Error analyzing function signature"
               /\ result.ret.semanticFeatures.behaviorPattern
                    = "Error analyzing behavior pattern"

\* C12, as the code has it: when an oracle call fails, the pipeline does not
\* raise and goes on to the store stage; the representation is absent only
\* when the Graph Store failed; its signature and pattern are the placeholder
\* texts exactly when the completion call failed, its embedding is empty when
\* the Embed call of the semantic embedder failed, and its augmented
\* embedding is empty when both Embed calls failed; updateFile stores it.
C12_OracleFailureDegrades ==
  /\ (result.op = "processFile" /\ OracleFailed)
       => /\ ~result.raised
          /\ StageRun("storeRelationships")
          /\ result.ret = NoRep => StorageFailed
          /\ result.ret # NoRep
               => /\ StageFailed("complete")
                       <=> result.ret.semanticFeatures.functionalSignature
                             = "Error analyzing function signature"
                  /\ StageFailed("complete")
                       <=> result.ret.semanticFeatures.behaviorPattern
                             = "Error analyzing behavior pattern"
                  /\ StageFailed("embed")
                       => result.ret.semanticFeatures.embedding = <<>>
                  /\ (StageFailed("embed") /\ StageFailed("encode"))
                       => result.ret.augmentedEmbedding = <<>>
  /\ (UpdateFileDone /\ OracleFailed /\ ~StorageFailed)
       => /\ result.success
          /\ graphReps[result.filePath].filePath = result.filePath

\* C12's case: the Embed call failed, the completion did not, and the
\* pipeline returned a representation with the oracle's texts
C12_Witness ==
  /\ result.op = "processFile"
  /\ StageFailed("embed")
  /\ ~StageFailed("complete")
  /\ result.ret # NoRep
  /\ result.ret.semanticFeatures.functionalSignature = "described"
  /\ result.ret.semanticFeatures.embedding = <<>>

\* C13: a second processRepository over unchanged files, the oracle giving
\* the same answers, leaves the cache and the Graph Store holding for every
\* path a representation identical in every field to the first run's: no
\* step of the second scan changes what the first scan stored for its file.
C13_SecondRunIdentical ==
  [][(/\ pc = "processRepository"
      /\ calls = 2
      /\ idx <= Len(work)
      /\ idx' = idx + 1
      /\ graphReps[work[idx]] # NoRep)
       => /\ graphReps'[work[idx]] = graphReps[work[idx]]
          /\ cache'[work[idx]] = cache[work[idx]]]_vars

\* the relation lists of a CodeRelationships object
RelationsOf(r) ==
  [imports |-> r.imports, exports |-> r.exports,
   functionCalls |-> r.functionCalls,
   classInheritance |-> r.classInheritance,
   dependencies |-> r.dependencies]

C15_MaskingKeepsStructure ==
  result.op = "detectBias"
    => /\ result.score \in 0..1000
       /\ result.masked.textualFeatures.docstrings = <<>>
       /\ result.masked.textualFeatures.comments = <<>>
       /\ Len(result.masked.textualFeatures.identifierNames)
            = Len(work.textualFeatures.identifierNames)
       /\ \A i \in 1..Len(result.masked.textualFeatures.identifierNames) :
            result.masked.textualFeatures.identifierNames[i] = "masked_id"
       /\ Len(result.masked.textualFeatures.variableNames)
            = Len(work.textualFeatures.variableNames)
       /\ \A i \in 1..Len(result.masked.textualFeatures.variableNames) :
            result.masked.textualFeatures.variableNames[i] = "var_x"
       /\ result.masked.structuralFeatures = work.structuralFeatures
       /\ [result.masked EXCEPT !.textualFeatures = work.textualFeatures] = work

\* C15's case: a representation with docstrings, comments, names and a
\* structure above the minimum was scored
C15_Witness ==
  /\ result.op = "detectBias"
  /\ work.textualFeatures.docstrings # <<>>
  /\ work.textualFeatures.comments # <<>>
  /\ Len(work.textualFeatures.identifierNames) = 2
  /\ work.textualFeatures.variableNames # <<>>
  /\ work.structuralFeatures.complexity > 1
  /\ work.structuralFeatures.functionCount > 0

\* C16: for fixed similarities and bias scores b1 <= b2 in [0,1], the
\* effective textual weight 0.2 * (1 - 0.5 * b) at b2 is not greater than at
\* b1, and neither is the textual term's normalised share of the combined
\* score, textualSim * textualWeight / normalizedWeights (the quotients are
\* compared by cross-multiplication).
C16_TextualWeightMonotone ==
  (result.op = "combineScores" /\ work.b1 <= work.b2)
    => /\ result.textualWeight2 <= result.textualWeight1
       /\ work.textualSim * result.textualWeight2 * result.normalizedWeights1
            <= work.textualSim * result.textualWeight1 * result.normalizedWeights2
       /\ result.score1.den = result.normalizedWeights1
       /\ result.score2.den = result.normalizedWeights2
       /\ result.score1.num - work.textualSim * result.textualWeight1
            = result.score2.num - work.textualSim * result.textualWeight2

\* C16's case: the scores were combined at two different bias scores, the
\* textual similarity not zero
C16_Witness ==
  /\ result.op = "combineScores"
  /\ work.b1 < work.b2
  /\ work.textualSim > 0
  /\ work.semanticSim > 0
  /\ result.textualWeight2 < result.textualWeight1

\* how many times x occurs in a list
Occurrences(s, x) == Cardinality({i \in 1..Len(s) : s[i] = x})

\* the initial results a list of ranked results was made of
Snippets(results) == [i \in 1..Len(results) |-> results[i].codeSnippet]

\* C17: for topK >= 0, rerank and rerankWithContext return
\* min(topK, |candidates|) results in non-increasing order of combined score,
\* and no candidate left out has a strictly higher combined score than one
\* returned.
C17_TopKByScore ==
  (result.op \in {"rerank", "rerankWithContext"} /\ work.topK >= 0)
    => /\ Len(result.results) = Min(work.topK, Len(work.initialResults))
       /\ \A i \in 1..Len(result.results) : \A j \in i..Len(result.results) :
            ~ScoreLess(result.results[i].biasAdjustedScore,
                       result.results[j].biasAdjustedScore)
       /\ \A i \in 1..Len(result.results) :
            /\ result.results[i].biasAdjustedScore
                 = scored(result.results[i].codeSnippet).biasAdjustedScore
            /\ Occurrences(Snippets(result.results), result.results[i].codeSnippet)
                 <= Occurrences(work.initialResults, result.results[i].codeSnippet)
       /\ \A k \in 1..Len(work.initialResults) :
            Occurrences(Snippets(result.results), work.initialResults[k])
              < Occurrences(work.initialResults, work.initialResults[k])
            => \A i \in 1..Len(result.results) :
                 ~ScoreLess(result.results[i].biasAdjustedScore,
                            scored(work.initialResults[k]).biasAdjustedScore)

\* C17's case: a list was truncated, the best candidate being the last of the
\* initial results
C17_Witness ==
  /\ result.op \in {"rerank", "rerankWithContext"}
  /\ work.topK > 0
  /\ work.topK < Len(work.initialResults)
  /\ Len(result.results) = work.topK
  /\ result.results[1].codeSnippet = work.initialResults[Len(work.initialResults)]
  /\ ScoreLess(scored(work.initialResults[1]).biasAdjustedScore,
               result.results[1].biasAdjustedScore)

\* the files a traversal visited: the start file, then the file of each
\* component it returned
VisitedFiles ==
  <<result.startNode>>
    \o [i \in 1..Len(result.relatedComponents) |->
          result.relatedComponents[i].filePath]

\* C18: traverseRelationships and getRelatedComponents with maxDepth = d
\* return no component with distance > d, and visit each file at most once
\* in a call: no file comes up twice among the start file and the components.
C18_TraversalBounded ==
  result.op \in {"traverseRelationships", "getRelatedComponents"}
    => /\ \A i \in 1..Len(result.relatedComponents) :
            result.relatedComponents[i].distance <= work.maxDepth
       /\ \A i \in 1..Len(VisitedFiles) : \A j \in 1..Len(VisitedFiles) :
            VisitedFiles[i] = VisitedFiles[j] => i = j

\* the discovered files whose pipeline reached Stored during the scan the
\* stage log is of
StoredFiles ==
  {p \in Range(result.codeFiles) :
     \E i \in 1..Len(stages) :
       stages[i] = [stage |-> "storeRepresentation", path |-> p, ok |-> TRUE]}

\* the sum of the bias scores the Graph Store holds for a set of files
RECURSIVE TotalBias(_)
TotalBias(files) ==
  IF files = {} THEN 0
  ELSE LET p == CHOOSE q \in files : TRUE
       IN  graphReps[p].biasScore + TotalBias(files \ {p})

\* C19: processRepository returns totalFiles = the number of discovered
\* files, filesProcessed = the number of files whose pipeline reached Stored,
\* biasDetected = the number of those whose bias score is strictly above the
\* threshold and averageBiasScore = their mean bias score (0 for none); hence
\* biasDetected <= filesProcessed <= totalFiles.
C19_StatsCountStoredFiles ==
  (result.op = "processRepository" /\ ~result.raised)
    => /\ result.totalFiles = Len(result.codeFiles)
       /\ result.filesProcessed = Cardinality(StoredFiles)
       /\ result.biasDetected =
            Cardinality({p \in StoredFiles :
                           graphReps[p].biasScore > biasThreshold})
       /\ result.averageBiasScore =
            IF StoredFiles = {} THEN 0
            ELSE TotalBias(StoredFiles) \div Cardinality(StoredFiles)
       /\ result.biasDetected <= result.filesProcessed
       /\ result.filesProcessed <= result.totalFiles

\* C20: the per-file pipeline is all-or-nothing: a step in which a stage
\* fails for a file, in updateFile(created|modified) or in the scan of
\* processRepository, adds no relationship edge and no representation of the
\* file to the Graph Store and leaves the cache as it was.
C20_PipelineAllOrNothing ==
  [][ /\ ( /\ calls' # calls
           /\ result'.op = "updateFile"
           /\ result'.changeType \in {"created", "modified"}
           /\ ~result'.success )
         => /\ {e \in graphEdges' : e.from = result'.filePath} \subseteq graphEdges
            /\ graphReps'[result'.filePath] \in {graphReps[result'.filePath], NoRep}
            /\ cache' = cache
      /\ ( /\ pc = "processRepository"
           /\ idx' = idx + 1
           /\ \E i \in (Len(stages) + 1)..Len(stages') :
                /\ ~stages'[i].ok
                /\ stages'[i].stage \in {"read", "storeRelationships",
                                          "storeRepresentation"} )
         => /\ {e \in graphEdges' : e.from = work[idx]} \subseteq graphEdges
            /\ graphReps'[work[idx]] \in {graphReps[work[idx]], NoRep}
            /\ cache' = cache ]_vars

\* C21: combineScores returns (t*wt + s*0.5 + f*0.3) / (wt + 0.5 + 0.3) with
\* wt = 0.2 * (1 - 0.5 * bias).  With similarities and bias in tenths and the
\* weights in hundredths the quotient is
\* (t*(20 - bias) + 50*s + 30*f) / (100 - bias) tenths; for t = 0.9, s = 0.5,
\* f = 0.5 and bias = 0.8 it lies between 0.5515 and 0.5525, about 0.552.
C21_CombinedScoreFormula ==
  result.op = "combineScores"
    => /\ result.score1.den = 100 - work.b1
       /\ result.score1.num =
            work.textualSim * (20 - work.b1)
              + 50 * work.semanticSim + 30 * work.functionalSim
       /\ (work.textualSim = 9 /\ work.semanticSim = 5
             /\ work.functionalSim = 5 /\ work.b1 = 8)
            => /\ 5515 * result.score1.den <= 1000 * result.score1.num
               /\ 1000 * result.score1.num < 5525 * result.score1.den

\* C21's case: the scores of scenario C were combined
C21_Witness ==
  /\ result.op = "combineScores"
  /\ work.textualSim = 9
  /\ work.semanticSim = 5
  /\ work.functionalSim = 5
  /\ work.b1 = 8
  /\ result.score1 = [num |-> 508, den |-> 92]

\* the components a traversal returned, as a set of
\* <<file, distance, relevanceScore>>
ComponentsFound ==
  {<<result.relatedComponents[i].filePath,
     result.relatedComponents[i].distance,
     result.relatedComponents[i].relevanceScore>> :
     i \in 1..Len(result.relatedComponents)}

\* C22: a component reached at distance k over an edge of type weight w has
\* relevanceScore = w / k, and on the stored chain A -> B -> C -> D of unit
\* weight edges a traversal from A with maxDepth = 2 returns exactly B
\* (distance 1, score 1) and C (distance 2, score 1/2), without D.
C22_ScoreIsWeightOverDistance ==
  result.op \in {"traverseRelationships", "getRelatedComponents"}
    => /\ \A i \in 1..Len(result.relatedComponents) :
            result.relatedComponents[i].relevanceScore
                * result.relatedComponents[i].distance
              = typeWeight[result.relatedComponents[i].relationshipType]
       /\ (/\ graphEdges = Chain
           /\ work.startFile = FileA
           /\ work.maxDepth = 2
           /\ \/ result.op = "getRelatedComponents"
              \/ "imports" \in work.relationshipTypes)
            => ComponentsFound = {<<FileB, 1, 100>>, <<FileC, 2, 50>>}

\* the relationship types a traversal was asked for: the default set when the
\* caller gave none
RequestedTypes ==
  IF result.op = "getRelatedComponents" \/ work.relationshipTypes = {}
    THEN defaultRelationshipTypes
    ELSE work.relationshipTypes

\* C23: getRelatedComponents and traverseRelationships return only
\* components whose relationshipType is in the requested set of relationship
\* types (the default set when none is given), and no component whose
\* relevanceScore is below minRelevanceScore.
C23_OnlyRequestedTypes ==
  result.op \in {"traverseRelationships", "getRelatedComponents"}
    => \A i \in 1..Len(result.relatedComponents) :
         /\ result.relatedComponents[i].relationshipType \in RequestedTypes
         /\ result.relatedComponents[i].relevanceScore >= defaultMinRelevanceScore

\* the files the search gives for the limit of the query run
SearchedFiles ==
  {searchCode("q", result.limit * 2)[i].filePath :
     i \in 1..Len(searchCode("q", result.limit * 2))}

\* C24: queryCode and queryCodeWithContext rerank the candidates of the
\* Graph Store search: every result is one of the candidates, the results are
\* in non-increasing order of score, for every explicitly given limit >= 0
\* there are at most limit of them, and when the search gives no candidate the
\* result is empty and the reranker was not invoked.
C24_QueryReturnsAtMostLimit ==
  result.op \in {"queryCode", "queryCodeWithContext"}
    => /\ \A i \in 1..Len(result.results) :
            result.results[i].codeSnippet.filePath \in SearchedFiles
       /\ \A i \in 1..(Len(result.results) - 1) :
            ~ScoreLess(result.results[i].biasAdjustedScore,
                       result.results[i + 1].biasAdjustedScore)
       /\ (work.given /\ work.maxResults >= 0)
            => Len(result.results) <= work.maxResults
       /\ result.searched = 0
            => (result.results = <<>> /\ ~result.reranked)

\* C25: in augment the functional signature and the behavior pattern are
\* extracted before the semantic embedding is requested, so that the text
\* sent to Embed for the semantic embedding carries the behavior pattern and
\* the functional signature extracted for the file, not the placeholder
\* 'unknown'.
C25_EmbedTextCarriesExtractedFeatures ==
  result.op = "augmentRepresentation"
    => /\ result.embedInput.codePatterns
            = result.ret.semanticFeatures.behaviorPattern
       /\ result.embedInput.functionalSignature
            = result.ret.semanticFeatures.functionalSignature
       /\ result.embedInput.codePatterns # "unknown"
       /\ result.embedInput.functionalSignature # "unknown"

\* the positions of the imports and depends_on components of a list
DependencyPositions(components) ==
  {j \in 1..Len(components) :
     components[j].relationshipType \in {"imports", "depends_on"}}

\* chain is filePath followed by the files of the (at most three) most
\* relevant dependencies among components, most relevant first
IsDependencyChain(chain, filePath, components) ==
  /\ Len(chain) = 1 + Min(3, Cardinality(DependencyPositions(components)))
  /\ chain[1] = filePath
  /\ \E f \in [1..(Len(chain) - 1) -> DependencyPositions(components)] :
       /\ \A k, l \in DOMAIN f : f[k] = f[l] => k = l
       /\ \A k \in DOMAIN f : chain[k + 1] = components[f[k]].filePath
       /\ \A k, l \in DOMAIN f :
            k < l => components[f[k]].relevanceScore
                       >= components[f[l]].relevanceScore
       /\ \A j \in DependencyPositions(components) :
            (\A k \in DOMAIN f : f[k] # j)
              => \A k \in DOMAIN f :
                   components[j].relevanceScore
                     <= components[f[k]].relevanceScore

\* C26: each result of rerankWithContext carries related components no
\* farther than distance 2, its context summary names the related component
\* of maximum relevanceScore, and its dependencyChain is the candidate's path
\* followed by at most three file paths: the imports/depends_on components of
\* highest relevance, in non-increasing order of relevance.
C26_ContextNamesMostRelevant ==
  (result.op = "rerankWithContext" /\ work.graphitiClient)
    => \A i \in 1..Len(result.results) :
         /\ \A j \in 1..Len(result.results[i].relatedComponents) :
              /\ result.results[i].relatedComponents[j].distance <= 2
              /\ result.results[i].relatedComponents[j].relevanceScore
                   <= result.results[i].contextExplanation.contextSummary
                        .mostRelevant.relevanceScore
         /\ result.results[i].relatedComponents # <<>>
              => \E j \in 1..Len(result.results[i].relatedComponents) :
                   result.results[i].relatedComponents[j]
                     = result.results[i].contextExplanation.contextSummary
                         .mostRelevant
         /\ IsDependencyChain(result.results[i].dependencyChain,
                              result.results[i].codeSnippet.filePath,
                              result.results[i].relatedComponents)

\* thresholds a configuration may set, in thousandths
Thresholds == {0, biasThreshold, 1000}

C28_CacheMatchesStore ==
  \A p \in Paths :
    cache[p] # NoRep => (graphReps[p] # NoRep /\ cache[p] = graphReps[p])

\* C28's case: the store refused the new representation of a cached file
\* whose content changed on disk, and the cache still holds what the store
\* holds, the representation of the old content
C28_Witness ==
  /\ result.op = "updateFile"
  /\ result.filePath = FileA
  /\ result.changeType = "modified"
  /\ ~result.success
  /\ StageFailed("storeRepresentation")
  /\ cache[FileA] # NoRep
  /\ cache[FileA] = graphReps[FileA]
  /\ cache[FileA].content # disk[FileA]

\* the relationships of the Graph Store that involve a path
EdgesOf(edges, p) == {e \in edges : e.from = p \/ e.to = p}

\* C30: updateFile(path, 'deleted') removes the cache entry before it asks
\* the Graph Store to delete, without rollback: a step in which the Graph
\* Store deletion fails returns success = false, leaves the cache without
\* path, and leaves path's representation and edges in the Graph Store.
C30_FailedDeleteDropsCacheOnly ==
  [][ ( /\ calls' # calls
        /\ result'.op = "updateFile"
        /\ result'.changeType = "deleted"
        /\ \E i \in 1..Len(stages') :
             stages'[i] = [stage |-> "delete", path |-> result'.filePath,
                           ok |-> FALSE] )
      => /\ ~result'.success
         /\ cache'[result'.filePath] = NoRep
         /\ graphReps'[result'.filePath] = graphReps[result'.filePath]
         /\ EdgesOf(graphEdges', result'.filePath)
              = EdgesOf(graphEdges, result'.filePath) ]_vars

\* C30's case: the deletion of a stored file failed in the Graph Store; the
\* cache has lost the file, the store still holds its representation and
\* edges
C30_Witness ==
  /\ result.op = "updateFile"
  /\ result.changeType = "deleted"
  /\ result.filePath = FileA
  /\ ~result.success
  /\ \E i \in 1..Len(stages) :
       stages[i] = [stage |-> "cacheDelete", path |-> FileA, ok |-> TRUE]
  /\ \E i \in 1..Len(stages) :
       stages[i] = [stage |-> "delete", path |-> FileA, ok |-> FALSE]
  /\ cacheEnabled
  /\ cache[FileA] = NoRep
  /\ graphReps[FileA] # NoRep
  /\ EdgesOf(graphEdges, FileA) # {}

\* C29: with callers interleaved on one path, a completed delete is not
\* undone by an older update still in flight: once updateFile(p, 'deleted')
\* has returned success, and no update of p was issued after the delete, p is
\* absent from the cache and from the Graph Store, representation and edges.
C29_DeleteNotUndone ==
  (result.op = "interleaved" /\ result.deleted = "success" /\ ~work.lateUpdate)
    => /\ cache[SharedPath] = NoRep
       /\ graphReps[SharedPath] = NoRep
       /\ {e \in graphEdges : e.from = SharedPath \/ e.to = SharedPath} = {}

====
